---- MODULE Spec2Model ----
(***************************************************************************)
(* A state-machine model of ril-py, the Python binding of the `ril` raster *)
(* image library: ImageSequence (src/src/sequence.rs), TextLayout behind   *)
(* its Arc<RwLock<..>> (src/src/text.rs, src/src/error.rs) and Image       *)
(* (src/src/image.rs, src/src/draw.rs, src/src/pixels.rs).                 *)
(*                                                                         *)
(* The three objects do not interact, so each has a specification of its   *)
(* own (SpecSeq, SpecLayout, SpecImage) over the shared variable tuple; a  *)
(* specification leaves the other objects' variables at their idle values. *)
(***************************************************************************)
EXTENDS Integers, Sequences, FiniteSets, TLC

(***************************************************************************)
(* Bounds of the model.                                                    *)
(***************************************************************************)
\* longest frame list handed to ImageSequence.from_frames
MaxFrames == 3
\* number of distinct images a Frame may enclose
NumImages == 2
\* how many times __next__ may signal exhaustion before the model stops calling it
MaxStops == 2
\* how many setter calls the caller makes on the Frame objects it holds
MaxEdits == 1
\* longest frame list whose Frame objects the caller goes on changing
MaxHeld == 2

VARIABLES
    seq_built,   \* TRUE once from_frames has constructed the object
    given,       \* the frame list from_frames was called with
    inner,       \* ImageSequence.inner: the stored frame list
    iter,        \* ImageSequence.iter: what the boxed iterator has left to yield
    seq_ret,     \* what the latest call on the object returned
    yielded,     \* frames returned by __next__ since the last exhaustion signal
    drains,      \* the frame lists of the completed passes, oldest first
    stopped      \* TRUE once __next__ has returned the exhaustion signal

seq_vars == <<seq_built, given, inner, iter, seq_ret, yielded, drains, stopped>>

VARIABLES
    lay,         \* the guarded OwnedTextLayout
    lock,        \* the RwLock: number of read guards alive, whether a write guard is
    poisoned,    \* the RwLock's poison flag
    th,          \* per caller: outside any method, or inside one with which guard
    lay_ret,     \* what the latest finished TextLayout call returned to its caller
    fresh        \* the latest metric read since the latest mutation, if any: which metric,
                 \* its value, and whether the read before it was of the same metric

lay_vars == <<lay, lock, poisoned, th, lay_ret, fresh>>

VARIABLES
    img,         \* the Image under observation: width, height, row-major pixel data
    img_ret,     \* what the latest call on it returned (the constructor's to begin with)
    img_args     \* the arguments of the latest call, where a property needs them

img_vars == <<img, img_ret, img_args>>

VARIABLES
    handles,     \* the Frame objects the caller of an ImageSequence holds: those of
                 \* the list it passed and those iteration gave it, and how
                 \* many setter calls it has made on them
    held         \* the metric value a caller of a TextLayout was returned last:
                 \* which metric, and the value

frm_vars == <<handles, held>>

VARIABLES
    arc,         \* per TextLayout handle: the allocation its Arc points to, 0 for none
    heap,        \* the allocations: each a guarded layout and its lock's poison flag
    root,        \* per handle: the constructed handle it is a clone of (itself if constructed)
    used         \* the handles the latest mutating call and the latest read went through

arc_vars == <<arc, heap, root, used>>

VARIABLES
    bdr,         \* the Border object under observation
    border_ret,  \* what the latest call on it returned
    border_args  \* the arguments of that call

bdr_vars == <<bdr, border_ret, border_args>>

vars == <<seq_vars, lay_vars, img_vars, frm_vars, arc_vars, bdr_vars>>

None == "None"

(***************************************************************************)
(* ImageSequence: src/src/sequence.rs                                      *)
(***************************************************************************)

\* Frame delays in milliseconds (Frame.set_delay takes any u64; two suffice here)
Delays == {0, 40}

\* A Frame is its image, delay and disposal method; the image is named by an id.
Frames == [image : 1..NumImages, delay : Delays, disposal : {"Keep"}]

\* DisposalMethod (types.rs:81-88)
Disposals == {"Keep", "Background", "Previous"}

RECURSIVE SeqsUpTo(_, _)
SeqsUpTo(S, n) ==
    IF n = 0 THEN {<<>>}
    ELSE LET shorter == SeqsUpTo(S, n - 1)
         IN  shorter \cup {Append(s, x) : s \in {t \in shorter : Len(t) = n - 1}, x \in S}

FrameLists == SeqsUpTo(Frames, MaxFrames)

\* file-format names handed to encode/save; ImageFormat::from_extension knows some
Extensions == {"png", "gif", "nope"}
KnownExtensions == {"png", "gif"}

\* a call's result: the method, the kind of value returned, and the value
Ret(op, kind, val) == [op |-> op, kind |-> kind, val |-> val]

StopIteration == "StopIteration"

\* ImageFormat::from_extension(name)?: Err(InvalidExtension) becomes ValueError
from_extension(name) ==
    IF name \in KnownExtensions THEN "ok" ELSE "ValueError"

\* a call that names a format with the codec run whatever the name
with_format_unchecked(op, name, codec) ==
    Ret(op, IF codec # "status" \/ name = None THEN codec ELSE
            IF from_extension(name) = "ok" THEN codec ELSE from_extension(name),
        [format |-> name, codec_called |-> TRUE])

\* a call that names a format: ImageFormat::from_extension(name)? comes before
\* the decode, encode or save and returns its error (image.rs:106, 320, 356;
\* sequence.rs:127, 192, 225); with no name the format is inferred by the
\* codec.  `codec` is what the codec would answer: "status" for Ok.
with_format(op, name, codec) ==
    IF name # None /\ from_extension(name) # "ok"
    THEN Ret(op, from_extension(name), [format |-> name, codec_called |-> FALSE])
    ELSE Ret(op, codec, [format |-> name, codec_called |-> TRUE])

\* inner.clone().into_iter(): the iterator owns a copy of the frames, in order
into_iter_reversed(frames) ==
    [i \in 1..Len(frames) |-> frames[Len(frames) + 1 - i]]

into_iter(frames) ==
    frames

\* Iterator::next on the boxed vec::IntoIter: the head, if any, and the rest
iter_next_restart(it, stored) ==
    IF it = <<>> THEN [some |-> FALSE, rest |-> stored]
    ELSE [some |-> TRUE, item |-> Head(it), rest |-> Tail(it)]

iter_next(it, stored) ==
    IF it = <<>> THEN [some |-> FALSE, rest |-> <<>>]
    ELSE [some |-> TRUE, item |-> Head(it), rest |-> Tail(it)]

\* what __next__ leaves in the stored frame list
stored_after_next_drained(stored, it) ==
    IF it = <<>> THEN stored ELSE Tail(stored)

stored_after_next(stored, it) ==
    stored

seq_Init ==
    /\ seq_built = FALSE
    /\ given = <<>>
    /\ inner = <<>>
    /\ iter = <<>>
    /\ seq_ret = Ret(None, None, None)
    /\ yielded = <<>>
    /\ drains = <<>>
    /\ stopped = FALSE

\* ImageSequence.from_frames(frames)
from_frames ==
    /\ ~seq_built
    /\ \E frames \in FrameLists :
         /\ given' = frames
         /\ inner' = frames
         /\ iter' = into_iter(frames)
    /\ seq_built' = TRUE
    /\ seq_ret' = Ret("from_frames", "status", "ok")
    /\ UNCHANGED <<yielded, drains, stopped>>

\* ImageSequence.__iter__: returns the object itself
__iter__ ==
    /\ seq_built
    /\ seq_ret' = Ret("__iter__", "status", "self")
    /\ UNCHANGED <<seq_built, given, inner, iter, yielded, drains, stopped>>

\* ImageSequence.__next__
__next__ ==
    /\ seq_built
    /\ Len(drains) < MaxStops
    /\ LET r == iter_next(iter, inner)
       IN  /\ iter' = r.rest
           /\ inner' = stored_after_next(inner, iter)
           /\ IF ~r.some
              THEN /\ seq_ret' = Ret("__next__", StopIteration, None)
                   /\ drains' = Append(drains, yielded)
                   /\ yielded' = <<>>
                   /\ stopped' = TRUE
              ELSE /\ seq_ret' = Ret("__next__", "Frame", r.item)
                   /\ yielded' = Append(yielded, r.item)
                   /\ UNCHANGED <<drains, stopped>>
    /\ UNCHANGED <<seq_built, given>>

\* ImageSequence.__len__
__len__ ==
    /\ seq_built
    /\ seq_ret' = Ret("__len__", "int", Len(inner))
    /\ UNCHANGED <<seq_built, given, inner, iter, yielded, drains, stopped>>

\* ImageSequence.encode(encoding): the codec's verdict on a known format is its own
seq_encode ==
    /\ seq_built
    /\ \E name \in Extensions, codec \in {"status", "RuntimeError"} :
         seq_ret' = with_format("encode", name, codec)
    /\ UNCHANGED <<seq_built, given, inner, iter, yielded, drains, stopped>>

\* ImageSequence.save(path, encoding)
seq_save ==
    /\ seq_built
    /\ \E name \in Extensions \cup {None}, codec \in {"status", "RuntimeError", "IOError"} :
         seq_ret' = with_format("save", name, codec)
    /\ UNCHANGED <<seq_built, given, inner, iter, yielded, drains, stopped>>

\* ImageSequence.from_bytes(bytes, format) (sequence.rs:125-138): the frames
\* decoded are the codec's
seq_from_bytes ==
    /\ ~seq_built
    /\ \E name \in Extensions \cup {None}, codec \in {"status", "RuntimeError"},
          frames \in {fs \in FrameLists : Len(fs) = 1} :
         /\ seq_ret' = with_format("from_bytes", name, codec)
         /\ IF seq_ret'.kind = "status"
            THEN /\ given' = frames
                 /\ inner' = frames
                 /\ iter' = into_iter(frames)
                 /\ seq_built' = TRUE
            ELSE UNCHANGED <<seq_built, given, inner, iter>>
    /\ UNCHANGED <<yielded, drains, stopped>>

(***************************************************************************)
(* The Frame objects of the caller of an ImageSequence.  Frame derives     *)
(* Clone (sequence.rs:19), so the Vec<Frame> argument of from_frames holds *)
(* copies of the caller's objects, and __next__ wraps the frame it takes   *)
(* out of the iterator in a new object.                                    *)
(***************************************************************************)
NoHandles == [frames |-> <<>>, edits |-> 0]

\* the stored list if the sequence held the caller's objects themselves
stored_after_set_shared(stored, i, frame) ==
    IF i <= Len(stored) THEN [stored EXCEPT ![i] = frame] ELSE stored

\* what a setter called on the caller's i-th Frame object leaves in the
\* stored list of the sequence (sequence.rs:148-150): the list holds clones
stored_after_set(stored, i, frame) ==
    stored

\* from_frames, the caller keeping the objects of the list it passed
keep_frames ==
    /\ from_frames
    /\ Len(given') <= MaxHeld
    /\ handles' = [frames |-> given', edits |-> 0]

\* __next__, the caller keeping the Frame it got in place of the one it got
\* before
obtain_frame ==
    /\ __next__
    /\ handles' = IF seq_ret'.kind = "Frame"
                  THEN [handles EXCEPT
                          !.frames = Append(SubSeq(@, 1, Len(given)), seq_ret'.val)]
                  ELSE handles

\* a setter of Frame called on one of the caller's objects
set_frame(i, frame, op) ==
    /\ seq_built
    /\ handles.edits < MaxEdits
    /\ handles' = [frames |-> [handles.frames EXCEPT ![i] = frame],
                   edits |-> handles.edits + 1]
    /\ inner' = stored_after_set(inner, i, frame)
    /\ seq_ret' = Ret(op, "status", i)
    /\ UNCHANGED <<seq_built, given, iter, yielded, drains, stopped>>

\* Frame.delay = delay (sequence.rs:61-64)
Frame_set_delay ==
    \E i \in 1..Len(handles.frames), delay \in Delays :
        set_frame(i, [handles.frames[i] EXCEPT !.delay = delay], "set_delay")

\* Frame.disposal = disposal (sequence.rs:66-69)
Frame_set_disposal ==
    \E i \in 1..Len(handles.frames), disposal \in Disposals :
        set_frame(i, [handles.frames[i] EXCEPT !.disposal = disposal], "set_disposal")

frm_Next ==
    \/ keep_frames /\ UNCHANGED <<lay_vars, img_vars, held, arc_vars, bdr_vars>>
    \/ obtain_frame /\ UNCHANGED <<lay_vars, img_vars, held, arc_vars, bdr_vars>>
    \/ Frame_set_delay /\ UNCHANGED <<lay_vars, img_vars, held, arc_vars, bdr_vars>>
    \/ Frame_set_disposal /\ UNCHANGED <<lay_vars, img_vars, held, arc_vars, bdr_vars>>



(***************************************************************************)
(* TextLayout: src/src/text.rs.  The Python object holds                   *)
(* Arc<RwLock<OwnedTextLayout>>; every method takes the lock with read()   *)
(* or write(), calls one method of the guarded layout and drops the guard  *)
(* on return.  OwnedTextLayout itself lives in the crate's `workaround`    *)
(* module (lib.rs:15), whose file is not part of the source tree at hand:  *)
(* its methods are modelled from the specification's text-layout section.  *)
(***************************************************************************)

\* most segments a layout is given
MaxSegments == 1

\* the callers that share the layout, each through its own clone of the handle
Threads == {"t1", "t2"}

ReadOps == {"bounding_box", "dimensions", "height", "width", "__repr__"}
WriteOps == {"centered", "set_position", "set_horizontal_anchor", "set_vertical_anchor",
             "set_width", "set_wrap", "push_basic_text", "push_segment"}
MetricOps == {"bounding_box", "dimensions", "height", "width"}

HorizontalAnchors == {"Left", "Center", "Right"}
VerticalAnchors == {"Top", "Center", "Bottom"}
WrapStyles == {"NoWrap", "Word", "Character"}

\* Option<u32>::None for the layout width
NoWidth == -1

\* argument values the callers pass
PositionInputs == {<<6, 4>>}
WidthInputs == {3}
\* a text is its words' glyph counts; a font is its optimal size; every glyph of
\* a font at size s advances s and is s high (the font collaborator's measure)
TextInputs == {<<1, 2>>}
FontInputs == {1}
SegmentInputs == {[words |-> <<3>>, size |-> 2]}

PoisionError == "PoisionError"

(* ---- OwnedTextLayout (workaround module), from the specification ---- *)

\* TextLayout::new() with nothing set
layout_default ==
    [segments |-> <<>>, position |-> <<0, 0>>, width |-> NoWidth, wrap |-> "Word",
     x_anchor |-> "Left", y_anchor |-> "Top"]

\* truncated subtraction on u32 coordinates
Monus(a, b) == IF a >= b THEN a - b ELSE 0

Max(a, b) == IF a >= b THEN a ELSE b

RECURSIVE SumSeq(_)
SumSeq(s) == IF s = <<>> THEN 0 ELSE Head(s) + SumSeq(Tail(s))

\* the units a segment's text may be broken between: its words, or under
\* Character wrapping its glyphs; each with its measured advance and height
segment_units(seg, wrap) ==
    IF wrap = "Character"
    THEN [i \in 1..SumSeq(seg.words) |-> [w |-> seg.size, h |-> seg.size]]
    ELSE [i \in 1..Len(seg.words) |-> [w |-> seg.words[i] * seg.size, h |-> seg.size]]

RECURSIVE layout_units(_, _)
layout_units(segs, wrap) ==
    IF segs = <<>> THEN <<>>
    ELSE segment_units(Head(segs), wrap) \o layout_units(Tail(segs), wrap)

\* greedy line filling: a unit that would pass the width starts a new line
RECURSIVE fill_lines(_, _, _, _, _, _)
fill_lines(units, limit, lineW, lineH, maxW, sumH) ==
    IF units = <<>> THEN [w |-> Max(maxW, lineW), h |-> sumH + lineH]
    ELSE LET u == Head(units)
         IN  IF limit # NoWidth /\ lineW > 0 /\ lineW + u.w > limit
             THEN fill_lines(Tail(units), limit, u.w, u.h, Max(maxW, lineW), sumH + lineH)
             ELSE fill_lines(Tail(units), limit, lineW + u.w, Max(lineH, u.h), maxW, sumH)

\* the measured extent of the laid-out text
layout_extent(l) ==
    fill_lines(layout_units(l.segments, l.wrap),
               IF l.wrap = "NoWrap" THEN NoWidth ELSE l.width, 0, 0, 0, 0)

\* OwnedTextLayout::dimensions
dimensions(l) == <<layout_extent(l).w, layout_extent(l).h>>

\* OwnedTextLayout::width / height
width(l) == layout_extent(l).w

height(l) == layout_extent(l).h

\* OwnedTextLayout::bounding_box: the extent placed at the position, shifted
\* left/up by half or all of it for the center and right/bottom anchors
bounding_box(l) ==
    LET e == layout_extent(l)
        ox == CASE l.x_anchor = "Left" -> 0
                [] l.x_anchor = "Center" -> e.w \div 2
                [] l.x_anchor = "Right" -> e.w
        oy == CASE l.y_anchor = "Top" -> 0
                [] l.y_anchor = "Center" -> e.h \div 2
                [] l.y_anchor = "Bottom" -> e.h
        left == Monus(l.position[1], ox)
        top == Monus(l.position[2], oy)
    IN  <<left, top, left + e.w, top + e.h>>

\* centered setting the horizontal anchor only
centered_horizontal(l) == [l EXCEPT !.x_anchor = "Center"]

\* OwnedTextLayout::centered
centered(l) == [l EXCEPT !.x_anchor = "Center", !.y_anchor = "Center"]

\* OwnedTextLayout::set_position / set_width / set_wrap
set_position(l, x, y) == [l EXCEPT !.position = <<x, y>>]

set_width(l, w) == [l EXCEPT !.width = w]

set_wrap(l, wrap) == [l EXCEPT !.wrap = wrap]

\* OwnedTextLayout::push_segment / push_basic_text
push_segment(l, seg) == [l EXCEPT !.segments = Append(@, seg)]

push_basic_text(l, font, text) ==
    push_segment(l, [words |-> text, size |-> font])

\* what a metric method computes under its read guard
metric(op, l) ==
    CASE op = "bounding_box" -> bounding_box(l)
      [] op = "dimensions" -> dimensions(l)
      [] op = "height" -> height(l)
      [] op = "width" -> width(l)
      [] op = "__repr__" -> <<bounding_box(l), dimensions(l), l.x_anchor, l.y_anchor>>

(* ---- the handle's methods: src/src/text.rs ---- *)

\* TextLayout.new(position, width, horizontal_anchor, vertical_anchor, wrap);
\* <<>>, NoWidth and None stand for an argument left out
TextLayout_new(position, w, horizontal_anchor, vertical_anchor, wrap) ==
    LET l1 == IF position # <<>>
              THEN set_position(layout_default, position[1], position[2])
              ELSE layout_default
        l2 == IF w # NoWidth THEN set_width(l1, w) ELSE l1
        l3 == IF horizontal_anchor # None THEN [l2 EXCEPT !.x_anchor = horizontal_anchor]
              ELSE l2
        l4 == IF vertical_anchor # None THEN [l3 EXCEPT !.y_anchor = vertical_anchor]
              ELSE l3
    IN  IF wrap # None THEN set_wrap(l4, wrap) ELSE l4

NewLayouts ==
    {TextLayout_new(p, w, ha, va, wr) :
        p \in PositionInputs \cup {<<>>}, w \in WidthInputs \cup {NoWidth},
        ha \in HorizontalAnchors \cup {None}, va \in VerticalAnchors \cup {None},
        wr \in WrapStyles \cup {None}}

Idle == "idle"
NotRead == [op |-> None, val |-> None, again |-> FALSE]

lay_Init ==
    /\ lay \in NewLayouts
    /\ lock = [readers |-> 0, writer |-> FALSE]
    /\ poisoned = FALSE
    /\ th = [t \in Threads |-> Idle]
    /\ lay_ret = Ret(None, None, None)
    /\ fresh = NotRead

\* RwLock::read returns once no write guard is alive
can_read(lk) == ~lk.writer

\* RwLock::write returns once no guard at all is alive
can_write_beside_readers(lk) == ~lk.writer

can_write(lk) == ~lk.writer /\ lk.readers = 0

\* what a lock call gives a caller that finds the poison flag set:
\* Err(PoisonError), turned into Error::PoisionError by `?` (error.rs:54-64)
on_poison_ignored(op) == Ret(op, "status", "ok")

on_poison(op) == Ret(op, "error", PoisionError)

\* whether a write guard dropped by an unwinding caller sets the poison flag
poison_on_unwind(was) == TRUE

\* a guard dropped without the lock being told
drop_guard_leaked(lk, guard) == lk

\* the drop of a guard at the end of a method, or as it unwinds
\* (text.rs:277-422: every guard is a temporary or a local of the method)
drop_guard(lk, guard) ==
    IF guard = "write" THEN [lk EXCEPT !.writer = FALSE]
    ELSE [lk EXCEPT !.readers = @ - 1]

\* `self.inner.read()?` at the head of a reading method, by a caller that
\* has just called it or has been waiting in it
read_lock(t, op) ==
    /\ th[t] \in {Idle, "wants_read"}
    /\ can_read(lock)
    /\ IF poisoned
       THEN /\ lay_ret' = on_poison(op)
            /\ th' = [th EXCEPT ![t] = Idle]
            /\ UNCHANGED <<lay, lock, poisoned, fresh>>
       ELSE /\ lock' = [lock EXCEPT !.readers = @ + 1]
            /\ th' = [th EXCEPT ![t] = "read"]
            /\ UNCHANGED <<lay, poisoned, lay_ret, fresh>>

\* the rest of a reading method: the guarded layout's metric, then the guard drops
read_body_centering(t, op) ==
    /\ th[t] = "read"
    /\ lock' = drop_guard(lock, "read")
    /\ th' = [th EXCEPT ![t] = Idle]
    /\ lay_ret' = Ret(op, "value", None)
    /\ fresh' = IF op \in MetricOps
                THEN [op |-> op, val |-> metric(op, lay), again |-> fresh.op = op]
                ELSE fresh
    /\ lay' = centered(lay)
    /\ UNCHANGED poisoned

read_body(t, op) ==
    /\ th[t] = "read"
    /\ lock' = drop_guard(lock, "read")
    /\ th' = [th EXCEPT ![t] = Idle]
    /\ lay_ret' = Ret(op, "value", None)
    /\ fresh' = IF op \in MetricOps
                THEN [op |-> op, val |-> metric(op, lay), again |-> fresh.op = op]
                ELSE fresh
    /\ UNCHANGED <<lay, poisoned>>

\* a reading method that unwinds: a read guard dropped in a panic poisons nothing
read_unwind(t, op) ==
    /\ th[t] = "read"
    /\ lock' = drop_guard(lock, "read")
    /\ th' = [th EXCEPT ![t] = Idle]
    /\ lay_ret' = Ret(op, "error", "panic")
    /\ UNCHANGED <<lay, poisoned, fresh>>

read_method(t, op) == read_lock(t, op) \/ read_body(t, op) \/ read_unwind(t, op)

\* `self.inner.write()?` at the head of a mutating method
write_lock(t, op) ==
    /\ th[t] \in {Idle, "wants_write"}
    /\ can_write(lock)
    /\ IF poisoned
       THEN /\ lay_ret' = on_poison(op)
            /\ th' = [th EXCEPT ![t] = Idle]
            /\ UNCHANGED <<lay, lock, poisoned, fresh>>
       ELSE /\ lock' = [lock EXCEPT !.writer = TRUE]
            /\ th' = [th EXCEPT ![t] = "write"]
            /\ UNCHANGED <<lay, poisoned, lay_ret, fresh>>

\* the rest of a mutating method: the change, then the guard drops
write_body(t, op, results) ==
    /\ th[t] = "write"
    /\ lay' \in results
    /\ lock' = drop_guard(lock, "write")
    /\ th' = [th EXCEPT ![t] = Idle]
    /\ lay_ret' = Ret(op, "status", "ok")
    /\ fresh' = NotRead
    /\ UNCHANGED poisoned

\* a mutating method that unwinds with its write guard alive: the change may or
\* may not have been made, and the guard's drop poisons the lock
write_unwind(t, op, results) ==
    /\ th[t] = "write"
    /\ lay' \in results \cup {lay}
    /\ poisoned' = poison_on_unwind(poisoned)
    /\ lock' = drop_guard(lock, "write")
    /\ th' = [th EXCEPT ![t] = Idle]
    /\ lay_ret' = Ret(op, "error", "panic")
    /\ fresh' = NotRead

write_method(t, op, results) ==
    write_lock(t, op) \/ write_body(t, op, results) \/ write_unwind(t, op, results)

TextLayout_bounding_box(t) == read_method(t, "bounding_box")

TextLayout_dimensions(t) == read_method(t, "dimensions")

TextLayout_height(t) == read_method(t, "height")

TextLayout_width(t) == read_method(t, "width")

TextLayout___repr__(t) == read_method(t, "__repr__")

TextLayout_centered(t) == write_method(t, "centered", {centered(lay)})

TextLayout_set_position(t) ==
    write_method(t, "set_position",
                 {set_position(lay, p[1], p[2]) : p \in PositionInputs \cup {<<0, 0>>}})

TextLayout_set_horizontal_anchor(t) ==
    write_method(t, "set_horizontal_anchor",
                 {[lay EXCEPT !.x_anchor = a] : a \in HorizontalAnchors})

TextLayout_set_vertical_anchor(t) ==
    write_method(t, "set_vertical_anchor",
                 {[lay EXCEPT !.y_anchor = a] : a \in VerticalAnchors})

TextLayout_set_width(t) ==
    write_method(t, "set_width", {set_width(lay, w) : w \in WidthInputs})

TextLayout_set_wrap(t) ==
    write_method(t, "set_wrap", {set_wrap(lay, w) : w \in WrapStyles})

TextLayout_push_basic_text(t) ==
    /\ Len(lay.segments) < MaxSegments
    /\ write_method(t, "push_basic_text",
                    {push_basic_text(lay, f, txt) : f \in FontInputs, txt \in TextInputs})

TextLayout_push_segment(t) ==
    /\ Len(lay.segments) < MaxSegments
    /\ write_method(t, "push_segment", {push_segment(lay, seg) : seg \in SegmentInputs})

(* ---- callers that wait for the lock ---- *)

\* a caller enters a method and finds the lock taken: RwLock::read and
\* RwLock::write block until the lock can be had
wants(t, guard) ==
    /\ th[t] = Idle
    /\ IF guard = "read" THEN ~can_read(lock) ELSE ~can_write(lock)
    /\ th' = [th EXCEPT ![t] = IF guard = "read" THEN "wants_read" ELSE "wants_write"]
    /\ UNCHANGED <<lay, lock, poisoned, lay_ret, fresh>>

wants_read(t) == wants(t, "read")

wants_write(t) == wants(t, "write")

\* the steps of the methods followed here: taking the lock, and returning
acquire(t) ==
    \/ \E op \in {"bounding_box", "__repr__"} : read_lock(t, op)
    \/ \E op \in {"centered", "set_position"} : write_lock(t, op)

return(t) == th[t] \in {"read", "write"} /\ th'[t] = Idle

lock_Next ==
    \E t \in Threads :
        \/ wants_read(t) /\ UNCHANGED <<seq_vars, img_vars, frm_vars, arc_vars, bdr_vars>>
        \/ wants_write(t) /\ UNCHANGED <<seq_vars, img_vars, frm_vars, arc_vars, bdr_vars>>
        \/ TextLayout_bounding_box(t) /\ UNCHANGED <<seq_vars, img_vars, frm_vars, arc_vars, bdr_vars>>
        \/ TextLayout___repr__(t) /\ UNCHANGED <<seq_vars, img_vars, frm_vars, arc_vars, bdr_vars>>
        \/ TextLayout_centered(t) /\ UNCHANGED <<seq_vars, img_vars, frm_vars, arc_vars, bdr_vars>>
        \/ TextLayout_set_position(t) /\ UNCHANGED <<seq_vars, img_vars, frm_vars, arc_vars, bdr_vars>>

(* ---- the metric values a caller holds across later calls ---- *)

NotHeld == [op |-> None, val |-> None]

\* the value a caller holds if a mutation recomputed it
held_after_write_recomputed(h, l) ==
    IF h.op = None THEN h ELSE [h EXCEPT !.val = metric(h.op, l)]

\* what a mutation leaves of a metric value returned before it: the metric
\* getters return tuples and integers by value (text.rs:285-322)
held_after_write(h, l) == h

\* a metric getter, the caller keeping what it returns
held_read(t, op) ==
    /\ read_method(t, op)
    /\ held' = IF th[t] = "read" /\ lay_ret' = Ret(op, "value", None)
               THEN [op |-> fresh'.op, val |-> fresh'.val]
               ELSE held

config_bounding_box(t) == held_read(t, "bounding_box")

config_dimensions(t) == held_read(t, "dimensions")

config_centered(t) ==
    TextLayout_centered(t) /\ held' = held_after_write(held, lay')

config_set_position(t) ==
    TextLayout_set_position(t) /\ held' = held_after_write(held, lay')

config_set_horizontal_anchor(t) ==
    TextLayout_set_horizontal_anchor(t) /\ held' = held_after_write(held, lay')

config_set_vertical_anchor(t) ==
    TextLayout_set_vertical_anchor(t) /\ held' = held_after_write(held, lay')

config_set_width(t) ==
    TextLayout_set_width(t) /\ held' = held_after_write(held, lay')

config_set_wrap(t) ==
    TextLayout_set_wrap(t) /\ held' = held_after_write(held, lay')

config_push_basic_text(t) ==
    TextLayout_push_basic_text(t) /\ held' = held_after_write(held, lay')

config_Next ==
    \E t \in Threads :
        \/ config_bounding_box(t) /\ UNCHANGED <<seq_vars, img_vars, handles, arc_vars, bdr_vars>>
        \/ config_dimensions(t) /\ UNCHANGED <<seq_vars, img_vars, handles, arc_vars, bdr_vars>>
        \/ config_centered(t) /\ UNCHANGED <<seq_vars, img_vars, handles, arc_vars, bdr_vars>>
        \/ config_set_position(t) /\ UNCHANGED <<seq_vars, img_vars, handles, arc_vars, bdr_vars>>
        \/ config_set_horizontal_anchor(t) /\ UNCHANGED <<seq_vars, img_vars, handles, arc_vars, bdr_vars>>
        \/ config_set_vertical_anchor(t) /\ UNCHANGED <<seq_vars, img_vars, handles, arc_vars, bdr_vars>>
        \/ config_set_width(t) /\ UNCHANGED <<seq_vars, img_vars, handles, arc_vars, bdr_vars>>
        \/ config_set_wrap(t) /\ UNCHANGED <<seq_vars, img_vars, handles, arc_vars, bdr_vars>>
        \/ config_push_basic_text(t) /\ UNCHANGED <<seq_vars, img_vars, handles, arc_vars, bdr_vars>>

(***************************************************************************)
(* Image: src/src/image.rs.  The Python object wraps ril's Image<Dynamic>, *)
(* whose pixel buffer is a Vec<Dynamic>: every pixel carries its own       *)
(* variant tag.  The methods hand their arguments to the wrapped image;    *)
(* what the wrapped call does is written as the specification's image      *)
(* section describes it.                                                   *)
(***************************************************************************)
\* largest number of pixels of an image
MaxArea == 2

Modes == {"bitpixel", "L", "RGB", "RGBA"}

\* Dynamic: the variant tag and the channel values
BitPixel(on) == [mode |-> "bitpixel", c |-> <<IF on THEN 1 ELSE 0>>]
L(v) == [mode |-> "L", c |-> <<v>>]
Rgb(r, g, b) == [mode |-> "RGB", c |-> <<r, g, b>>]
Rgba(r, g, b, a) == [mode |-> "RGBA", c |-> <<r, g, b, a>>]

\* the pixels callers pass in
PixelInputs == {BitPixel(TRUE), L(255), Rgb(0, 0, 0), Rgba(0, 0, 0, 0)}

Image(w, h, data) == [width |-> w, height |-> h, data |-> data]

Dims == {d \in (1..MaxArea) \X (1..MaxArea) : d[1] * d[2] <= MaxArea}

\* RilImage::new(width, height, fill)
ril_new(w, h, fill) == Image(w, h, [i \in 1..(w * h) |-> fill])

\* RilImage::from_pixels(width, pixels): the pixels as given, height derived
ril_from_pixels(w, pixels) == Image(w, Len(pixels) \div w, pixels)

\* the buffer index of (x, y), both counted from 0
Offset(im, x, y) == y * im.width + x + 1

InBounds(im, x, y) == x >= 0 /\ y >= 0 /\ x < im.width /\ y < im.height

\* RilImage::pixel(x, y)
pixel(im, x, y) == im.data[Offset(im, x, y)]

\* Image.mode (image.rs:168-177): the variant of the pixel at (0, 0)
mode(im) == pixel(im, 0, 0).mode

\* Image.__len__ (image.rs:531-533)
len_of_row(im) == im.width

len(im) == Len(im.data)

\* RilImage::set_pixel: the pixel is stored as given, whatever its variant
ril_set_pixel(im, x, y, p) == [im EXCEPT !.data[Offset(im, x, y)] = p]

\* OverlayMode: Replace overwrites; Merge composites by the source's alpha,
\* which for a pixel without alpha, or an opaque one, is to overwrite
overlay(dest, src, how) ==
    IF how = "Merge" /\ src.mode = "RGBA" /\ src.c[4] = 0 THEN dest ELSE src

\* the overlay mode of an image made by this module's constructors
default_overlay == "Replace"

\* RilImage::paste_with_mask(x, y, image, mask): each pixel of `image` whose
\* mask bit is on lands at its offset if that is inside `im`
ril_paste_with_mask(im, x, y, other, mask) ==
    [im EXCEPT !.data =
        [k \in 1..Len(im.data) |->
            LET px == (k - 1) % im.width
                py == (k - 1) \div im.width
                i == px - x
                j == py - y
            IN  IF InBounds(other, i, j) /\ pixel(mask, i, j).c[1] = 1
                THEN overlay(im.data[k], pixel(other, i, j), default_overlay)
                ELSE im.data[k]]]

\* RilImage::paste(x, y, image)
ril_paste(im, x, y, other) ==
    ril_paste_with_mask(im, x, y, other,
                        ril_new(other.width, other.height, BitPixel(TRUE)))

\* the luminance of a pixel: its value, or the weighted sum of its colours
luminance(p) ==
    CASE p.mode = "bitpixel" -> 255 * p.c[1]
      [] p.mode = "L" -> p.c[1]
      [] OTHER -> (299 * p.c[1] + 587 * p.c[2] + 114 * p.c[3]) \div 1000

\* convert::<ril::BitPixel>() of a mask that passed the mode test: a pixel of
\* another variant is on when it is brighter than half
to_bitpixel(p) == IF p.mode = "bitpixel" THEN p ELSE BitPixel(luminance(p) > 127)

convert_bitpixel(im) == [im EXCEPT !.data = [k \in 1..Len(im.data) |-> to_bitpixel(im.data[k])]]

\* Pixel::inverted: channels flipped in their range, alpha untouched
inverted(p) ==
    CASE p.mode = "bitpixel" -> BitPixel(p.c[1] = 0)
      [] p.mode = "L" -> L(255 - p.c[1])
      [] p.mode = "RGB" -> Rgb(255 - p.c[1], 255 - p.c[2], 255 - p.c[3])
      [] p.mode = "RGBA" -> Rgba(255 - p.c[1], 255 - p.c[2], 255 - p.c[3], p.c[4])

ril_invert(im) == [im EXCEPT !.data = [k \in 1..Len(im.data) |-> inverted(im.data[k])]]

\* RilImage::mirror: every row reversed
ril_mirror(im) ==
    [im EXCEPT !.data =
        [k \in 1..Len(im.data) |->
            pixel(im, im.width - 1 - ((k - 1) % im.width), (k - 1) \div im.width)]]

\* RilImage::flip: the rows in reverse order
ril_flip(im) ==
    [im EXCEPT !.data =
        [k \in 1..Len(im.data) |->
            pixel(im, (k - 1) % im.width, im.height - 1 - ((k - 1) \div im.width))]]

\* RilImage::crop(x1, y1, x2, y2): the box [x1, x2) x [y1, y2) of the image
ril_crop(im, x1, y1, x2, y2) ==
    LET w == x2 - x1
        h == y2 - y1
    IN  Image(w, h, [k \in 1..(w * h) |-> pixel(im, x1 + ((k - 1) % w), y1 + ((k - 1) \div w))])

\* RilImage::resize(width, height, algorithm): a grid of the target size; the
\* sample taken for a target pixel is the source pixel its centre falls in
\* (the seven kernels differ in the values they blend, not in the grid)
ril_resize(im, w, h, algorithm) ==
    Image(w, h,
          [k \in 1..(w * h) |->
              pixel(im, (((k - 1) % w) * im.width) \div w,
                        (((k - 1) \div w) * im.height) \div h)])

\* Pixel::with_alpha under RilImage::mask_alpha
with_alpha(p, a) == IF p.mode = "RGBA" THEN Rgba(p.c[1], p.c[2], p.c[3], a) ELSE p

\* convert::<ril::L>() of a mask that passed the mode test
to_l(p) == IF p.mode = "L" THEN p ELSE L(luminance(p))

ril_mask_alpha(im, mask) ==
    [im EXCEPT !.data =
        [k \in 1..Len(im.data) |->
            IF k <= Len(mask.data)
            THEN with_alpha(im.data[k], to_l(mask.data[k]).c[1])
            ELSE im.data[k]]]

\* the overlay an entity draws with: its own if it names one, else the image's
entity_overlay(e) == IF e.overlay = None THEN default_overlay ELSE e.overlay

\* Rectangle.__new__ storing the size with its two components exchanged
Rectangle_transposed(position, size, border, fill, how) ==
    [shape |-> "Rectangle", position |-> position, size |-> <<size[2], size[1]>>,
     border |-> border, fill |-> fill, overlay |-> how]

\* Rectangle.__new__ (draw.rs:348-364): the fields as given
Rectangle(position, size, border, fill, how) ==
    [shape |-> "Rectangle", position |-> position, size |-> size,
     border |-> border, fill |-> fill, overlay |-> how]

Ellipse(position, radii, border, fill, how) ==
    [shape |-> "Ellipse", position |-> position, size |-> radii,
     border |-> border, fill |-> fill, overlay |-> how]

\* get_border_position with `inset` and `outset` exchanged
get_border_position_swapped(position) ==
    CASE position = "inset" -> "Outset"
      [] position = "center" -> "Center"
      [] position = "outset" -> "Inset"
      [] OTHER -> "ValueError"

\* get_border_position (draw.rs:22-32): the position a caller names, as the
\* wrapped enum; any other string is a ValueError
get_border_position(position) ==
    CASE position = "inset" -> "Inset"
      [] position = "center" -> "Center"
      [] position = "outset" -> "Outset"
      [] OTHER -> "ValueError"

\* Border.__new__ (draw.rs:68-79), for a position get_border_position accepts
Border(color, thickness, position) ==
    [color |-> color, thickness |-> thickness,
     position |-> get_border_position(position)]

\* an absent Option<Pixel>, and an absent Option<Border>
NoPixel == [mode |-> None, c |-> <<>>]
NoBorder == [color |-> NoPixel, thickness |-> 0, position |-> None]

\* the preconditions Rectangle's rasterization asserts (draw.rs:309-318): a
\* size that is not zero in either direction, and a fill or a border
rectangle_asserts(e) ==
    /\ e.fill # NoPixel \/ e.border # NoBorder
    /\ e.size[1] > 0 /\ e.size[2] > 0

\* the nominal box of a rectangle: position up to position + size, exclusive
in_box(e, x, y) ==
    /\ x >= e.position[1] /\ x < e.position[1] + e.size[1]
    /\ y >= e.position[2] /\ y < e.position[2] + e.size[2]

\* how far a border reaches inside and outside the nominal boundary: all of
\* its thickness inside (Inset), all outside (Outset), or half each (Center)
border_bounds(border) ==
    CASE border.position = "Inset" -> [inner |-> border.thickness, outer |-> 0]
      [] border.position = "Outset" -> [inner |-> 0, outer |-> border.thickness]
      [] OTHER -> [inner |-> border.thickness \div 2, outer |-> border.thickness \div 2]

\* what the border of a rectangle covers: the concentric ring between the box
\* grown by the outer bound and the box shrunk by the inner bound
in_border(e, x, y) ==
    LET b == border_bounds(e.border)
    IN  /\ e.border # NoBorder
        /\ x >= e.position[1] - b.outer /\ x < e.position[1] + e.size[1] + b.outer
        /\ y >= e.position[2] - b.outer /\ y < e.position[2] + e.size[2] + b.outer
        /\ ~ /\ x >= e.position[1] + b.inner /\ x < e.position[1] + e.size[1] - b.inner
             /\ y >= e.position[2] + b.inner /\ y < e.position[2] + e.size[2] - b.inner

\* what a filled ellipse covers: the pixels inside the curve about its centre
in_ellipse(e, x, y) ==
    LET dx == x - e.position[1]
        dy == y - e.position[2]
        rx == e.size[1]
        ry == e.size[2]
    IN  dx * dx * ry * ry + dy * dy * rx * rx <= rx * rx * ry * ry

covered(e, x, y) == IF e.shape = "Rectangle" THEN in_box(e, x, y) ELSE in_ellipse(e, x, y)

\* Draw::draw of a shape whose preconditions hold
ril_draw(im, e) ==
    [im EXCEPT !.data =
        [k \in 1..Len(im.data) |->
            LET x == (k - 1) % im.width
                y == (k - 1) \div im.width
            IN  IF e.shape = "Rectangle" /\ in_border(e, x, y)
                THEN overlay(im.data[k], e.border.color, entity_overlay(e))
                ELSE IF e.fill # NoPixel /\ covered(e, x, y)
                THEN overlay(im.data[k], e.fill, entity_overlay(e))
                ELSE im.data[k]]]

\* what a Rust panic under a #[pymethods] call surfaces as
PanicException == "PanicException"
UnexpectedFormat == "UnexpectedFormat"

\* the entities handed to draw
DrawInputs ==
    {Rectangle(<<0, 0>>, <<1, 1>>, NoBorder, NoPixel, None),
     Rectangle(<<0, 0>>, <<0, 1>>, NoBorder, L(255), None),
     Rectangle(<<0, 0>>, <<1, 0>>, Border(L(255), 1, "inset"), NoPixel, None),
     Rectangle(<<0, 0>>, <<MaxArea, 1>>, NoBorder, Rgb(0, 0, 0), None),
     Rectangle(<<0, 0>>, <<1, MaxArea>>, NoBorder, Rgba(0, 0, 0, 0), "Merge"),
     Rectangle(<<1, 0>>, <<1, 1>>, Border(BitPixel(TRUE), 1, "inset"), NoPixel, "Replace"),
     Ellipse(<<0, 0>>, <<1, 1>>, NoBorder, NoPixel, None),
     Ellipse(<<0, 0>>, <<0, 0>>, NoBorder, L(255), None),
     Ellipse(<<0, 0>>, <<1, 1>>, NoBorder, L(255), None)}

\* the images pasted, and the masks they are pasted through
PasteInputs == {ril_new(1, 1, L(255)), ril_new(MaxArea, 1, Rgba(0, 0, 0, 0))}
PasteOffsets == {<<0, 0>>, <<1, 0>>, <<0, 1>>}
MaskPixels == PixelInputs \cup {BitPixel(FALSE)}

\* ResizeAlgorithm (types.rs:14-42)
ResizeInputs ==
    {"Nearest", "Box", "Bilinear", "Hamming", "Bicubic", "Mitchell", "Lanczos3"}

\* From<ResizeAlgorithm> for ril::ResizeAlgorithm (types.rs:44-59): each
\* variant to the wrapped kernel of its name
ril_ResizeAlgorithm(algo) ==
    CASE algo = "Nearest" -> "ril::ResizeAlgorithm::Nearest"
      [] algo = "Box" -> "ril::ResizeAlgorithm::Box"
      [] algo = "Bilinear" -> "ril::ResizeAlgorithm::Bilinear"
      [] algo = "Hamming" -> "ril::ResizeAlgorithm::Hamming"
      [] algo = "Bicubic" -> "ril::ResizeAlgorithm::Bicubic"
      [] algo = "Mitchell" -> "ril::ResizeAlgorithm::Mitchell"
      [] algo = "Lanczos3" -> "ril::ResizeAlgorithm::Lanczos3"

\* RilImage::from_bands of three or four L images of one size
ril_from_bands(bands) ==
    Image(bands[1].width, bands[1].height,
          [k \in 1..Len(bands[1].data) |->
              IF Len(bands) = 3
              THEN Rgb(bands[1].data[k].c[1], bands[2].data[k].c[1], bands[3].data[k].c[1])
              ELSE Rgba(bands[1].data[k].c[1], bands[2].data[k].c[1],
                        bands[3].data[k].c[1], bands[4].data[k].c[1])])

\* Image.new (image.rs:78-82)
Image_new(w, h, fill) == ril_new(w, h, fill)

\* Image.from_pixels (image.rs:126-136)
Image_from_pixels(w, pixels) == ril_from_pixels(w, pixels)

\* Image.from_bands (image.rs:225-250) of bands that pass ensure_mode
Image_from_bands(bands) ==
    ril_from_bands([i \in 1..Len(bands) |->
        [bands[i] EXCEPT !.data = [k \in 1..Len(bands[i].data) |-> to_l(bands[i].data[k])]]])

PixelLists == {pixels \in SeqsUpTo(PixelInputs, MaxArea) : pixels # <<>>}

BandInputs ==
    {[i \in 1..n |-> ril_new(d[1], d[2], L(255))] : n \in {3, 4}, d \in Dims}

\* no arguments kept
NoArgs == [op |-> None]

img_Init ==
    \/ \E d \in Dims, fill \in PixelInputs :
          /\ img = Image_new(d[1], d[2], fill)
          /\ img_ret = Ret("new", "status", "ok")
    \/ \E pixels \in PixelLists :
          \E w \in 1..Len(pixels) :
              /\ Len(pixels) % w = 0
              /\ img = Image_from_pixels(w, pixels)
              /\ img_ret = Ret("from_pixels", "status", "ok")
    \/ \E bands \in BandInputs :
          /\ img = Image_from_bands(bands)
          /\ img_ret = Ret("from_bands", "status", "ok")

\* Image.mode (image.rs:168-177)
Image_mode ==
    /\ img_ret' = Ret("mode", "value", mode(img))
    /\ UNCHANGED img

\* Image.__len__ (image.rs:531-533)
Image___len__ ==
    /\ img_ret' = Ret("__len__", "value", len(img))
    /\ UNCHANGED img

\* Image.set_pixel (image.rs:521-524), at coordinates inside the image
Image_set_pixel ==
    \E x \in 0..(img.width - 1), y \in 0..(img.height - 1), p \in PixelInputs :
        /\ img' = ril_set_pixel(img, x, y, p)
        /\ img_ret' = Ret("set_pixel", "status", "ok")

\* Image.draw (image.rs:280-283): nothing is tested before the entity
\* rasterizes itself, and nothing comes back.  A rectangle asserts its
\* preconditions before it touches a pixel; what an ellipse with nothing to
\* draw, or of no extent, does is not in this repository, so it is either.
draw(e) ==
    \/ /\ e.shape = "Rectangle"
       /\ IF rectangle_asserts(e)
          THEN /\ img' = ril_draw(img, e)
               /\ img_ret' = Ret("draw", "status", [entity |-> e])
          ELSE /\ img' = img
               /\ img_ret' = Ret("draw", PanicException, [entity |-> e])
    \/ /\ e.shape = "Ellipse"
       /\ IF (e.fill # NoPixel \/ e.border # NoBorder) /\ e.size[1] > 0 /\ e.size[2] > 0
          THEN /\ img' = ril_draw(img, e)
               /\ img_ret' = Ret("draw", "status", [entity |-> e])
          ELSE /\ img' = img
               /\ img_ret' \in {Ret("draw", "status", [entity |-> e]),
                                Ret("draw", PanicException, [entity |-> e])}

Image_draw == \E e \in DrawInputs : draw(e)

\* no image: what a constructor that raised leaves its caller with, and an
\* Option<Image> left out
NoImage == Image(0, 0, <<>>)

\* the test paste makes of a mask (image.rs:417)
mask_accepted_any(mask) == TRUE

mask_accepted(mask) == mode(mask) = "bitpixel"

\* Image.paste (image.rs:415-431) of `other` at (x, y) through `mask`
paste_transposed(x, y, other, mask) ==
    IF mask = NoImage
    THEN /\ img' = ril_paste(img, y, x, other)
         /\ img_ret' = Ret("paste", "status", [mask |-> None])
    ELSE IF ~mask_accepted(mask)
    THEN /\ img' = img
         /\ img_ret' = Ret("paste", UnexpectedFormat,
                           [expected |-> "bitpixel", got |-> mode(mask)])
    ELSE /\ img' = ril_paste_with_mask(img, y, x, other, convert_bitpixel(mask))
         /\ img_ret' = Ret("paste", "status", [mask |-> mode(mask)])

paste(x, y, other, mask) ==
    IF mask = NoImage
    THEN /\ img' = ril_paste(img, x, y, other)
         /\ img_ret' = Ret("paste", "status", [mask |-> None])
    ELSE IF ~mask_accepted(mask)
    THEN /\ img' = img
         /\ img_ret' = Ret("paste", UnexpectedFormat,
                           [expected |-> "bitpixel", got |-> mode(mask)])
    ELSE /\ img' = ril_paste_with_mask(img, x, y, other, convert_bitpixel(mask))
         /\ img_ret' = Ret("paste", "status", [mask |-> mode(mask)])

Image_paste ==
    \E other \in PasteInputs, at \in PasteOffsets, fill \in MaskPixels \cup {NoPixel} :
        paste(at[1], at[2], other,
              IF fill = NoPixel THEN NoImage ELSE ril_new(other.width, other.height, fill))

\* Image.mask_alpha (image.rs:449-460).  Only the mask's mode is tested.  What
\* the wrapped call makes of a mask of another size, or of pixels that have
\* no alpha, is not in this repository: it panics, or it goes through the
\* pixels it has a mask value for and leaves those without alpha as they are.
mask_alpha(mask) ==
    IF mode(mask) # "L"
    THEN /\ img' = img
         /\ img_ret' = Ret("mask_alpha", UnexpectedFormat,
                           [expected |-> "L", got |-> mode(mask)])
    ELSE \/ /\ img' = ril_mask_alpha(img, mask)
            /\ img_ret' = Ret("mask_alpha", "status", "ok")
         \/ /\ \/ <<mask.width, mask.height>> # <<img.width, img.height>>
               \/ \E k \in 1..Len(img.data) : img.data[k].mode # "RGBA"
            /\ img' = img
            /\ img_ret' = Ret("mask_alpha", PanicException, None)

\* with a mask of the image's size
Image_mask_alpha ==
    \E fill \in MaskPixels : mask_alpha(ril_new(img.width, img.height, fill))

\* Image.invert (image.rs:527-529)
Image_invert ==
    /\ img' = ril_invert(img)
    /\ img_ret' = Ret("invert", "status", "ok")

\* Image.mirror (image.rs:463-465)
Image_mirror ==
    /\ img' = ril_mirror(img)
    /\ img_ret' = Ret("mirror", "status", "ok")

\* Image.flip (image.rs:468-470)
Image_flip ==
    /\ img' = ril_flip(img)
    /\ img_ret' = Ret("flip", "status", "ok")

\* Image.crop (image.rs:270-272), to a box inside the image
Image_crop ==
    \E x1 \in 0..(img.width - 1), y1 \in 0..(img.height - 1) :
        \E x2 \in (x1 + 1)..img.width, y2 \in (y1 + 1)..img.height :
            /\ img' = ril_crop(img, x1, y1, x2, y2)
            /\ img_ret' = Ret("crop", "status", "ok")

\* Image.resize handing the height where the width goes
resize_transposed(w, h, algorithm) ==
    /\ img' = ril_resize(img, h, w, ril_ResizeAlgorithm(algorithm))
    /\ img_ret' = Ret("resize", "status", "ok")

\* Image.resize (image.rs:295-297), to a size that is not zero
resize(w, h, algorithm) ==
    /\ img' = ril_resize(img, w, h, ril_ResizeAlgorithm(algorithm))
    /\ img_ret' = Ret("resize", "status", "ok")

Image_resize == \E d \in Dims, algorithm \in ResizeInputs : resize(d[1], d[2], algorithm)

(***************************************************************************)
(* One image followed from its constructor through one call, with the      *)
(* arguments of each kept beside the result.  The constructors and the     *)
(* pixel accessors return plain values (Self, PyObject, ()), so what the   *)
(* wrapped image does with arguments it cannot use reaches the caller as   *)
(* it is; where that is not in this repository both a panic and a silent   *)
(* result are followed.                                                    *)
(***************************************************************************)
\* the exceptions Error turns into (error.rs:17-43), and those the methods
\* raise themselves
ReportedErrors == {"ValueError", "TypeError", "RuntimeError", "IOError", UnexpectedFormat}

\* the sides of the square images the drawing scenarios use
SceneSides == {4, 6}

NewDims ==
    {d \in (0..MaxArea) \X (0..MaxArea) : d[1] * d[2] <= MaxArea}
        \cup {<<n, n>> : n \in SceneSides}

\* Image.new (image.rs:78-82) with any width and height
construct_new ==
    /\ img_ret.op = None
    /\ \E d \in NewDims, fill \in PixelInputs :
          /\ img_args' = [op |-> "new", width |-> d[1], height |-> d[2], fill |-> fill]
          /\ IF d[1] > 0 /\ d[2] > 0
             THEN /\ img' = Image_new(d[1], d[2], fill)
                  /\ img_ret' = Ret("new", "status", "ok")
             ELSE \/ /\ img' = img
                     /\ img_ret' = Ret("new", PanicException, None)
                  \/ /\ img' = Image(d[1], d[2], <<>>)
                     /\ img_ret' = Ret("new", "status", "ok")

\* Image.from_pixels (image.rs:126-136) with any width and any pixels
construct_from_pixels ==
    /\ img_ret.op = None
    /\ \E w \in 0..MaxArea, pixels \in PixelLists :
          /\ img_args' = [op |-> "from_pixels", width |-> w, pixels |-> pixels]
          /\ IF w > 0 /\ Len(pixels) % w = 0
             THEN /\ img' = Image_from_pixels(w, pixels)
                  /\ img_ret' = Ret("from_pixels", "status", "ok")
             ELSE \/ /\ img' = img
                     /\ img_ret' = Ret("from_pixels", PanicException, None)
                  \/ /\ w > 0
                     /\ img' = Image_from_pixels(w, pixels)
                     /\ img_ret' = Ret("from_pixels", "status", "ok")

\* most images handed to from_bands at once
MaxBands == 5

\* the images handed to from_bands, and the tuples of them
BandImages == {ril_new(1, 1, L(0)), ril_new(1, 1, L(255)), ril_new(1, 1, Rgb(0, 0, 0))}
BandTuples == {bands \in SeqsUpTo(BandImages, MaxBands) : Len(bands) >= 2}

\* ensure_mode! (image.rs:45-55): the first band whose mode is not L, or 0
ensure_mode_first_only(bands) == IF mode(bands[1]) # "L" THEN 1 ELSE 0

ensure_mode(bands) ==
    IF \A i \in 1..Len(bands) : mode(bands[i]) = "L" THEN 0
    ELSE CHOOSE i \in 1..Len(bands) :
             /\ mode(bands[i]) # "L"
             /\ \A j \in 1..(i - 1) : mode(bands[j]) = "L"

\* Image.from_bands (image.rs:229-255) with any tuple of images
construct_from_bands ==
    /\ img_ret.op = None
    /\ \E bands \in BandTuples :
          /\ img_args' = [op |-> "from_bands", bands |-> bands]
          /\ IF Len(bands) \notin {3, 4}
             THEN /\ img' = img
                  /\ img_ret' = Ret("from_bands", "ValueError", Len(bands))
             ELSE IF ensure_mode(bands) # 0
             THEN /\ img' = img
                  /\ img_ret' = Ret("from_bands", "TypeError",
                                    [expected |-> "L", got |-> mode(bands[ensure_mode(bands)])])
             ELSE /\ img' = Image_from_bands(bands)
                  /\ img_ret' = Ret("from_bands", "status", "ok")

\* a constructor returned an image a method can be called on
constructed ==
    /\ img_ret.op \in {"new", "from_pixels", "from_bands"}
    /\ img_ret.kind = "status"
    /\ Len(img.data) > 0
    /\ Len(img.data) = img.width * img.height

\* the coordinates a caller passes: inside the small images and just outside
Coordinates == (0..MaxArea) \X (0..MaxArea)

\* Image.get_pixel (image.rs:502-509) of a coordinate inside the image
get_pixel(im, x, y) == pixel(im, x, y)

\* Image.get_pixel (image.rs:502-509) with any coordinate.  Outside the image
\* the indexing of the wrapped buffer decides: it panics, or it reads the
\* pixel the row-major index falls on.
call_get_pixel ==
    /\ constructed
    /\ \E at \in Coordinates :
          /\ img_args' = [op |-> "get_pixel", x |-> at[1], y |-> at[2]]
          /\ img' = img
          /\ IF InBounds(img, at[1], at[2])
             THEN img_ret' = Ret("get_pixel", "value", get_pixel(img, at[1], at[2]))
             ELSE \/ img_ret' = Ret("get_pixel", PanicException, None)
                  \/ /\ Offset(img, at[1], at[2]) <= Len(img.data)
                     /\ img_ret' = Ret("get_pixel", "value", img.data[Offset(img, at[1], at[2])])

\* Image.set_pixel (image.rs:522-524) with any coordinate.  Outside the image
\* the wrapped call decides: it panics, it does nothing, or it writes the
\* pixel the row-major index falls on.
call_set_pixel ==
    /\ constructed
    /\ \E at \in Coordinates, p \in PixelInputs :
          /\ img_args' = [op |-> "set_pixel", x |-> at[1], y |-> at[2], pixel |-> p]
          /\ IF InBounds(img, at[1], at[2])
             THEN /\ img' = ril_set_pixel(img, at[1], at[2], p)
                  /\ img_ret' = Ret("set_pixel", "status", "ok")
             ELSE \/ /\ img' = img
                     /\ img_ret' = Ret("set_pixel", PanicException, None)
                  \/ /\ img' = img
                     /\ img_ret' = Ret("set_pixel", "status", "ok")
                  \/ /\ Offset(img, at[1], at[2]) <= Len(img.data)
                     /\ img' = ril_set_pixel(img, at[1], at[2], p)
                     /\ img_ret' = Ret("set_pixel", "status", "ok")

\* convert::<ril::Rgb>() and convert::<ril::Rgba>() of a pixel: a grey value
\* goes to all three colours, a bit to the extremes, alpha is dropped or opaque
to_rgb(p) ==
    CASE p.mode = "bitpixel" -> Rgb(255 * p.c[1], 255 * p.c[1], 255 * p.c[1])
      [] p.mode = "L" -> Rgb(p.c[1], p.c[1], p.c[1])
      [] p.mode = "RGB" -> p
      [] p.mode = "RGBA" -> Rgb(p.c[1], p.c[2], p.c[3])

to_rgba(p) ==
    IF p.mode = "RGBA" THEN p
    ELSE Rgba(to_rgb(p).c[1], to_rgb(p).c[2], to_rgb(p).c[3], 255)

\* RilImage::bands of the converted image: one L image per channel
ril_bands(im, n) ==
    [i \in 1..n |->
        [im EXCEPT !.data =
            [k \in 1..Len(im.data) |->
                L((IF n = 3 THEN to_rgb(im.data[k]) ELSE to_rgba(im.data[k])).c[i])]]]

\* Image.bands (image.rs:201-218)
Image_bands(im) ==
    CASE mode(im) = "RGB" -> Ret("bands", "value", ril_bands(im, 3))
      [] mode(im) = "RGBA" -> Ret("bands", "value", ril_bands(im, 4))
      [] OTHER -> Ret("bands", UnexpectedFormat,
                      [expected |-> mode(im), got |-> "Rgb or Rgba"])

call_bands ==
    /\ constructed
    /\ img_args' = [op |-> "bands"]
    /\ img' = img
    /\ img_ret' = Image_bands(img)

\* Image.mask_alpha with a mask of the image's size or of one pixel
call_mask_alpha ==
    /\ constructed
    /\ \E d \in {<<img.width, img.height>>, <<1, 1>>}, fill \in MaskPixels :
          LET mask == ril_new(d[1], d[2], fill)
          IN  /\ img_args' = [op |-> "mask_alpha", mask |-> mask]
              /\ mask_alpha(mask)

\* the images pasted in one call: those above and one of four different pixels
ScenePaste ==
    PasteInputs \cup
        {Image_from_pixels(2, <<BitPixel(TRUE), L(255), Rgb(0, 0, 0), Rgba(0, 0, 0, 0)>>)}

\* Image.paste at any coordinate
call_paste ==
    /\ constructed
    /\ \E other \in ScenePaste, at \in Coordinates, fill \in MaskPixels \cup {NoPixel} :
          LET mask == IF fill = NoPixel THEN NoImage
                      ELSE ril_new(other.width, other.height, fill)
          IN  /\ img_args' = [op |-> "paste", x |-> at[1], y |-> at[2],
                              other |-> other, mask |-> mask]
              /\ paste(at[1], at[2], other, mask)

\* the rectangles of the drawing scenarios: where they lie, their sizes, and
\* the borders a caller gives them (position as Python names it, thickness)
ScenePositions == {<<1, 1>>, <<2, 2>>}
SceneSizes == {<<2, 2>>, <<3, 3>>, <<2, 3>>}
SceneBorders ==
    {<<"inset", 1>>, <<"inset", 2>>, <<"center", 2>>, <<"outset", 1>>, <<"outset", 2>>}
SceneFill == Rgba(255, 0, 0, 255)
SceneStroke == Rgba(0, 0, 0, 255)

\* Image.draw (image.rs:281-283) of a Rectangle built by Rectangle.__new__ and
\* Border.__new__ from a caller's arguments; a border stays within the
\* coordinates a u32 holds
call_draw ==
    /\ constructed
    /\ \E at \in ScenePositions, size \in SceneSizes, fill \in {NoPixel, SceneFill},
          how \in {None, "Merge"}, b \in SceneBorders \cup {<<None, 0>>} :
          LET border == IF b[1] = None THEN NoBorder
                        ELSE Border(SceneStroke, b[2], b[1])
          IN  /\ b[2] <= at[1] /\ b[2] <= at[2]
              /\ img_args' = [op |-> "draw", position |-> at, size |-> size,
                              fill |-> fill, border |-> b, overlay |-> how]
              /\ draw(Rectangle(at, size, border, fill, how))

\* the classes DrawEntity::extract tries in turn (draw.rs:483-487)
DrawEntityClasses == {"Rectangle", "Ellipse", "TextSegment"}

\* the classes of the values a caller hands to draw
DrawArguments == DrawEntityClasses \cup {"TextLayout", "int"}

\* impl_draw_entities! (draw.rs:466-479): Ok for an object of one of the
\* classes listed, else a RuntimeError
DrawEntity_extract(class) ==
    IF class \in DrawEntityClasses THEN "Ok" ELSE "RuntimeError"

\* Image.draw (image.rs:281-283) of a value of any class: the argument is
\* extracted as a DrawEntity before the body runs, and a failed extraction
\* is what the caller gets; an extracted entity draws itself (the pixels a
\* text covers are not modelled: none, or the first)
call_draw_entity ==
    /\ constructed
    /\ \E class \in DrawArguments :
          /\ img_args' = [op |-> "draw_entity", class |-> class]
          /\ IF DrawEntity_extract(class) # "Ok"
             THEN /\ img' = img
                  /\ img_ret' = Ret("draw", DrawEntity_extract(class), [entity |-> None])
             ELSE IF class = "Rectangle"
             THEN draw(Rectangle(<<0, 0>>, <<1, 1>>, NoBorder, L(255), None))
             ELSE IF class = "Ellipse"
             THEN draw(Ellipse(<<0, 0>>, <<1, 1>>, NoBorder, L(255), None))
             ELSE /\ img' \in {img, ril_set_pixel(img, 0, 0, L(255))}
                  /\ img_ret' = Ret("draw", "status", [entity |-> [shape |-> class]])

\* Image.resize (image.rs:295-297) of a constructed image to a size that is
\* not zero, and of the resized image back to the size it had, with the
\* same algorithm
call_resize ==
    \/ /\ constructed
       /\ \E d \in Dims \cup {<<n, n>> : n \in SceneSides}, algorithm \in ResizeInputs :
             /\ img_args' = [op |-> "resize", width |-> d[1], height |-> d[2],
                             algorithm |-> algorithm, back |-> FALSE,
                             before |-> <<img.width, img.height>>]
             /\ resize(d[1], d[2], algorithm)
    \/ /\ img_ret.op = "resize" /\ ~img_args.back
       /\ img_args' = [op |-> "resize", width |-> img_args.before[1],
                       height |-> img_args.before[2],
                       algorithm |-> img_args.algorithm, back |-> TRUE,
                       before |-> <<img.width, img.height>>]
       /\ resize(img_args.before[1], img_args.before[2], img_args.algorithm)

\* Image.from_bytes(bytes, format) (image.rs:103-114): the image decoded is
\* the codec's
Image_from_bytes ==
    /\ img_ret.op = None
    /\ \E name \in Extensions \cup {None}, codec \in {"status", "RuntimeError"},
          decoded \in PasteInputs :
          /\ img_args' = [op |-> "from_bytes", format |-> name]
          /\ img_ret' = with_format("from_bytes", name, codec)
          /\ img' = IF img_ret'.kind = "status" THEN decoded ELSE img

\* Image.encode(encoding) (image.rs:319-334)
Image_encode ==
    /\ img # NoImage
    /\ \E name \in Extensions, codec \in {"status", "RuntimeError"} :
          /\ img_args' = [op |-> "encode", format |-> name]
          /\ img_ret' = with_format("encode", name, codec)
    /\ img' = img

\* Image.save(path, encoding) (image.rs:354-363)
Image_save ==
    /\ img # NoImage
    /\ \E name \in Extensions \cup {None}, codec \in {"status", "RuntimeError", "IOError"} :
          /\ img_args' = [op |-> "save", format |-> name]
          /\ img_ret' = with_format("save", name, codec)
    /\ img' = img

\* the calls of Image and of ImageSequence that take a format name
codec_Next ==
    \/ Image_from_bytes /\ UNCHANGED <<seq_vars, lay_vars, frm_vars, arc_vars, bdr_vars>>
    \/ Image_encode /\ UNCHANGED <<seq_vars, lay_vars, frm_vars, arc_vars, bdr_vars>>
    \/ Image_save /\ UNCHANGED <<seq_vars, lay_vars, frm_vars, arc_vars, bdr_vars>>
    \/ seq_from_bytes /\ UNCHANGED <<lay_vars, img_vars, frm_vars, arc_vars, bdr_vars>>
    \/ seq_encode /\ UNCHANGED <<lay_vars, img_vars, frm_vars, arc_vars, bdr_vars>>
    \/ seq_save /\ UNCHANGED <<lay_vars, img_vars, frm_vars, arc_vars, bdr_vars>>

call_Init ==
    /\ img = NoImage
    /\ img_ret = Ret(None, None, None)
    /\ img_args = NoArgs

call_Next ==
    \/ construct_new /\ UNCHANGED <<seq_vars, lay_vars, frm_vars, arc_vars, bdr_vars>>
    \/ construct_from_pixels /\ UNCHANGED <<seq_vars, lay_vars, frm_vars, arc_vars, bdr_vars>>
    \/ construct_from_bands /\ UNCHANGED <<seq_vars, lay_vars, frm_vars, arc_vars, bdr_vars>>
    \/ call_get_pixel /\ UNCHANGED <<seq_vars, lay_vars, frm_vars, arc_vars, bdr_vars>>
    \/ call_set_pixel /\ UNCHANGED <<seq_vars, lay_vars, frm_vars, arc_vars, bdr_vars>>
    \/ call_bands /\ UNCHANGED <<seq_vars, lay_vars, frm_vars, arc_vars, bdr_vars>>
    \/ call_mask_alpha /\ UNCHANGED <<seq_vars, lay_vars, frm_vars, arc_vars, bdr_vars>>
    \/ call_paste /\ UNCHANGED <<seq_vars, lay_vars, frm_vars, arc_vars, bdr_vars>>
    \/ call_draw /\ UNCHANGED <<seq_vars, lay_vars, frm_vars, arc_vars, bdr_vars>>
    \/ call_resize /\ UNCHANGED <<seq_vars, lay_vars, frm_vars, arc_vars, bdr_vars>>
    \/ call_draw_entity /\ UNCHANGED <<seq_vars, lay_vars, frm_vars, arc_vars, bdr_vars>>

img_Next ==
    \/ Image_mode /\ UNCHANGED <<seq_vars, lay_vars, img_args, frm_vars, arc_vars, bdr_vars>>
    \/ Image___len__ /\ UNCHANGED <<seq_vars, lay_vars, img_args, frm_vars, arc_vars, bdr_vars>>
    \/ Image_set_pixel /\ UNCHANGED <<seq_vars, lay_vars, img_args, frm_vars, arc_vars, bdr_vars>>
    \/ Image_draw /\ UNCHANGED <<seq_vars, lay_vars, img_args, frm_vars, arc_vars, bdr_vars>>
    \/ Image_paste /\ UNCHANGED <<seq_vars, lay_vars, img_args, frm_vars, arc_vars, bdr_vars>>
    \/ Image_mask_alpha /\ UNCHANGED <<seq_vars, lay_vars, img_args, frm_vars, arc_vars, bdr_vars>>
    \/ Image_invert /\ UNCHANGED <<seq_vars, lay_vars, img_args, frm_vars, arc_vars, bdr_vars>>
    \/ Image_mirror /\ UNCHANGED <<seq_vars, lay_vars, img_args, frm_vars, arc_vars, bdr_vars>>
    \/ Image_flip /\ UNCHANGED <<seq_vars, lay_vars, img_args, frm_vars, arc_vars, bdr_vars>>
    \/ Image_crop /\ UNCHANGED <<seq_vars, lay_vars, img_args, frm_vars, arc_vars, bdr_vars>>
    \/ Image_resize /\ UNCHANGED <<seq_vars, lay_vars, img_args, frm_vars, arc_vars, bdr_vars>>

seq_Next ==
    \/ from_frames /\ UNCHANGED <<lay_vars, img_vars, frm_vars, arc_vars, bdr_vars>>
    \/ __iter__ /\ UNCHANGED <<lay_vars, img_vars, frm_vars, arc_vars, bdr_vars>>
    \/ __next__ /\ UNCHANGED <<lay_vars, img_vars, frm_vars, arc_vars, bdr_vars>>
    \/ __len__ /\ UNCHANGED <<lay_vars, img_vars, frm_vars, arc_vars, bdr_vars>>
    \/ seq_encode /\ UNCHANGED <<lay_vars, img_vars, frm_vars, arc_vars, bdr_vars>>
    \/ seq_save /\ UNCHANGED <<lay_vars, img_vars, frm_vars, arc_vars, bdr_vars>>

lay_Next ==
    \E t \in Threads :
        \/ TextLayout_bounding_box(t) /\ UNCHANGED <<seq_vars, img_vars, frm_vars, arc_vars, bdr_vars>>
        \/ TextLayout_dimensions(t) /\ UNCHANGED <<seq_vars, img_vars, frm_vars, arc_vars, bdr_vars>>
        \/ TextLayout_height(t) /\ UNCHANGED <<seq_vars, img_vars, frm_vars, arc_vars, bdr_vars>>
        \/ TextLayout_width(t) /\ UNCHANGED <<seq_vars, img_vars, frm_vars, arc_vars, bdr_vars>>
        \/ TextLayout___repr__(t) /\ UNCHANGED <<seq_vars, img_vars, frm_vars, arc_vars, bdr_vars>>
        \/ TextLayout_centered(t) /\ UNCHANGED <<seq_vars, img_vars, frm_vars, arc_vars, bdr_vars>>
        \/ TextLayout_set_position(t) /\ UNCHANGED <<seq_vars, img_vars, frm_vars, arc_vars, bdr_vars>>
        \/ TextLayout_set_horizontal_anchor(t) /\ UNCHANGED <<seq_vars, img_vars, frm_vars, arc_vars, bdr_vars>>
        \/ TextLayout_set_vertical_anchor(t) /\ UNCHANGED <<seq_vars, img_vars, frm_vars, arc_vars, bdr_vars>>
        \/ TextLayout_set_width(t) /\ UNCHANGED <<seq_vars, img_vars, frm_vars, arc_vars, bdr_vars>>
        \/ TextLayout_set_wrap(t) /\ UNCHANGED <<seq_vars, img_vars, frm_vars, arc_vars, bdr_vars>>
        \/ TextLayout_push_basic_text(t) /\ UNCHANGED <<seq_vars, img_vars, frm_vars, arc_vars, bdr_vars>>
        \/ TextLayout_push_segment(t) /\ UNCHANGED <<seq_vars, img_vars, frm_vars, arc_vars, bdr_vars>>

\* the objects a specification is not about stay as constructed
seq_Idle == seq_Init

lay_Idle ==
    /\ lay = layout_default
    /\ lock = [readers |-> 0, writer |-> FALSE]
    /\ poisoned = FALSE
    /\ th = [t \in Threads |-> Idle]
    /\ lay_ret = Ret(None, None, None)
    /\ fresh = NotRead

img_Idle ==
    /\ img = Image_new(1, 1, BitPixel(TRUE))
    /\ img_ret = Ret("new", "status", "ok")
    /\ img_args = NoArgs

(***************************************************************************)
(* TextLayout handles: src/src/text.rs:229-273.  The Python object holds   *)
(* an Arc<RwLock<..>>; TextLayout::new makes the allocation, and the       *)
(* derived Clone copies the Arc.  A method called through a handle is      *)
(* followed here from its lock call to its return in one step.             *)
(***************************************************************************)

Handles == {"h1", "h2", "h3"}

NoUse == [write |-> None, read |-> None]

\* the positions the constructor is called with here; <<>> for none
HandlePositions == {<<>>, <<6, 4>>}

\* Arc::new(RwLock::new(inner)) (text.rs:270-272): a new allocation, unpoisoned
Arc_new(hp, l) ==
    [heap |-> Append(hp, [lay |-> l, poisoned |-> FALSE]), cell |-> Len(hp) + 1]

\* a clone that copies the guarded layout into an allocation of its own
Arc_clone_deep(hp, cell) == [heap |-> Append(hp, hp[cell]), cell |-> Len(hp) + 1]

\* the derived Clone of TextLayout (text.rs:229-236): Arc::clone, the same
\* allocation with one more owner
Arc_clone(hp, cell) == [heap |-> hp, cell |-> cell]

\* TextLayout.__new__ giving the caller the handle h
handle_new(h) ==
    /\ arc[h] = 0
    /\ \E p \in HandlePositions :
          LET made == Arc_new(heap, TextLayout_new(p, NoWidth, None, None, None))
          IN  /\ heap' = made.heap
              /\ arc' = [arc EXCEPT ![h] = made.cell]
    /\ root' = [root EXCEPT ![h] = h]
    /\ UNCHANGED <<used, lay_ret>>

\* the handle g made as a clone of the handle h
handle_clone(h, g) ==
    /\ arc[h] # 0 /\ arc[g] = 0
    /\ LET made == Arc_clone(heap, arc[h])
       IN  /\ heap' = made.heap
           /\ arc' = [arc EXCEPT ![g] = made.cell]
    /\ root' = [root EXCEPT ![g] = root[h]]
    /\ UNCHANGED <<used, lay_ret>>

\* a mutating method through the handle h that returns
handle_write(h, op, result) ==
    /\ arc[h] # 0
    /\ IF heap[arc[h]].poisoned
       THEN /\ lay_ret' = on_poison(op)
            /\ UNCHANGED heap
       ELSE /\ heap' = [heap EXCEPT ![arc[h]].lay = result]
            /\ lay_ret' = Ret(op, "status", "ok")
    /\ used' = [write |-> h, read |-> None]
    /\ UNCHANGED <<arc, root>>

handle_centered(h) ==
    /\ arc[h] # 0
    /\ handle_write(h, "centered", centered(heap[arc[h]].lay))

handle_set_position(h) ==
    /\ arc[h] # 0
    /\ \E p \in PositionInputs \cup {<<0, 0>>} :
          handle_write(h, "set_position", set_position(heap[arc[h]].lay, p[1], p[2]))

\* a mutating method through the handle h that unwinds with its write guard alive
handle_unwind(h) ==
    /\ arc[h] # 0
    /\ ~heap[arc[h]].poisoned
    /\ heap' = [heap EXCEPT ![arc[h]].poisoned = poison_on_unwind(@)]
    /\ lay_ret' = Ret("set_position", "error", "panic")
    /\ used' = [write |-> h, read |-> None]
    /\ UNCHANGED <<arc, root>>

\* a reading method through the handle h
handle_read(h, op) ==
    /\ arc[h] # 0
    /\ lay_ret' = IF heap[arc[h]].poisoned THEN on_poison(op)
                  ELSE Ret(op, "value", metric(op, heap[arc[h]].lay))
    /\ used' = [used EXCEPT !.read = h]
    /\ UNCHANGED <<arc, heap, root>>

handle_bounding_box(h) == handle_read(h, "bounding_box")

handle___repr__(h) == handle_read(h, "__repr__")

arc_Next ==
    \E h \in Handles :
        \/ handle_new(h) /\ UNCHANGED <<lay, lock, poisoned, th, fresh, seq_vars, img_vars, frm_vars, bdr_vars>>
        \/ (\E g \in Handles : handle_clone(h, g))
                  /\ UNCHANGED <<lay, lock, poisoned, th, fresh, seq_vars, img_vars,
                             frm_vars, bdr_vars>>
        \/ handle_centered(h) /\ UNCHANGED <<lay, lock, poisoned, th, fresh, seq_vars, img_vars, frm_vars, bdr_vars>>
        \/ handle_set_position(h) /\ UNCHANGED <<lay, lock, poisoned, th, fresh, seq_vars, img_vars, frm_vars, bdr_vars>>
        \/ handle_unwind(h) /\ UNCHANGED <<lay, lock, poisoned, th, fresh, seq_vars, img_vars, frm_vars, bdr_vars>>
        \/ handle_bounding_box(h) /\ UNCHANGED <<lay, lock, poisoned, th, fresh, seq_vars, img_vars, frm_vars, bdr_vars>>
        \/ handle___repr__(h) /\ UNCHANGED <<lay, lock, poisoned, th, fresh, seq_vars, img_vars, frm_vars, bdr_vars>>

arc_Idle ==
    /\ arc = [h \in Handles |-> 0]
    /\ heap = <<>>
    /\ root = [h \in Handles |-> None]
    /\ used = NoUse

(***************************************************************************)
(* Border: src/src/draw.rs:22-113.  The Python object wraps ril's Border:  *)
(* a colour, a thickness and a BorderPosition.                             *)
(***************************************************************************)

\* the strings a caller passes as a position
PositionStrings == {"inset", "center", "outset", "Inset", "middle", ""}

BorderColors == {L(0), Rgb(255, 0, 0)}

BorderThicknesses == {0, 1}

\* the wrapped enum's own name given back
from_border_position_debug(position) == position

\* from_border_position (draw.rs:34-40): the wrapped enum as the string Python reads
from_border_position(position) ==
    CASE position = "Inset" -> "inset"
      [] position = "Center" -> "center"
      [] position = "Outset" -> "outset"

NoCall == [op |-> None, position |-> None]

\* Border.__new__ (draw.rs:66-78): get_border_position(position)?, then the object
Border_new ==
    /\ bdr = NoBorder
    /\ \E color \in BorderColors, thickness \in BorderThicknesses,
          position \in PositionStrings :
          /\ border_args' = [op |-> "new", position |-> position]
          /\ IF get_border_position(position) = "ValueError"
             THEN /\ border_ret' = Ret("new", "ValueError", None)
                  /\ UNCHANGED bdr
             ELSE /\ bdr' = Border(color, thickness, position)
                  /\ border_ret' = Ret("new", "status", "ok")

\* the getters (draw.rs:80-96)
Border_get_color ==
    /\ bdr # NoBorder
    /\ border_ret' = Ret("get_color", "value", bdr.color)
    /\ border_args' = [op |-> "get_color", position |-> None]
    /\ UNCHANGED bdr

Border_get_thickness ==
    /\ bdr # NoBorder
    /\ border_ret' = Ret("get_thickness", "value", bdr.thickness)
    /\ border_args' = [op |-> "get_thickness", position |-> None]
    /\ UNCHANGED bdr

Border_get_position ==
    /\ bdr # NoBorder
    /\ border_ret' = Ret("get_position", "value", from_border_position(bdr.position))
    /\ border_args' = [op |-> "get_position", position |-> None]
    /\ UNCHANGED bdr

\* the setters (draw.rs:98-113); set_position assigns only once
\* get_border_position has returned Ok
Border_set_color ==
    /\ bdr # NoBorder
    /\ \E color \in BorderColors : bdr' = [bdr EXCEPT !.color = color]
    /\ border_ret' = Ret("set_color", "status", "ok")
    /\ border_args' = [op |-> "set_color", position |-> None]

Border_set_thickness ==
    /\ bdr # NoBorder
    /\ \E thickness \in BorderThicknesses : bdr' = [bdr EXCEPT !.thickness = thickness]
    /\ border_ret' = Ret("set_thickness", "status", "ok")
    /\ border_args' = [op |-> "set_thickness", position |-> None]

Border_set_position ==
    /\ bdr # NoBorder
    /\ \E position \in PositionStrings :
          /\ border_args' = [op |-> "set_position", position |-> position]
          /\ IF get_border_position(position) = "ValueError"
             THEN /\ border_ret' = Ret("set_position", "ValueError", None)
                  /\ UNCHANGED bdr
             ELSE /\ bdr' = [bdr EXCEPT !.position = get_border_position(position)]
                  /\ border_ret' = Ret("set_position", "status", "ok")

bdr_Next ==
    \/ Border_new /\ UNCHANGED <<seq_vars, lay_vars, img_vars, frm_vars, arc_vars>>
    \/ Border_get_color /\ UNCHANGED <<seq_vars, lay_vars, img_vars, frm_vars, arc_vars>>
    \/ Border_get_thickness /\ UNCHANGED <<seq_vars, lay_vars, img_vars, frm_vars, arc_vars>>
    \/ Border_get_position /\ UNCHANGED <<seq_vars, lay_vars, img_vars, frm_vars, arc_vars>>
    \/ Border_set_color /\ UNCHANGED <<seq_vars, lay_vars, img_vars, frm_vars, arc_vars>>
    \/ Border_set_thickness /\ UNCHANGED <<seq_vars, lay_vars, img_vars, frm_vars, arc_vars>>
    \/ Border_set_position /\ UNCHANGED <<seq_vars, lay_vars, img_vars, frm_vars, arc_vars>>

bdr_Idle ==
    /\ bdr = NoBorder
    /\ border_ret = Ret(None, None, None)
    /\ border_args = NoCall

frm_Idle == handles = NoHandles /\ held = NotHeld

SeqInit == seq_Init /\ lay_Idle /\ img_Idle /\ frm_Idle /\ arc_Idle /\ bdr_Idle

SpecSeq ==
    /\ SeqInit
    /\ [][seq_Next]_vars

SpecFrame ==
    /\ SeqInit
    /\ [][frm_Next]_vars

LayoutInit == lay_Init /\ seq_Idle /\ img_Idle /\ frm_Idle /\ arc_Idle /\ bdr_Idle

SpecLayout ==
    /\ LayoutInit
    /\ [][lay_Next]_vars

CallInit == call_Init /\ seq_Idle /\ lay_Idle /\ frm_Idle /\ arc_Idle /\ bdr_Idle

SpecCall ==
    /\ CallInit
    /\ [][call_Next]_vars

SpecCodec ==
    /\ CallInit
    /\ [][codec_Next]_vars

\* a TextLayout made with no argument, beside the other objects unbuilt
ConfigInit == lay_Idle /\ seq_Idle /\ img_Idle /\ frm_Idle /\ arc_Idle /\ bdr_Idle

SpecConfig ==
    /\ ConfigInit
    /\ [][config_Next]_vars

\* callers that wait for the lock: a method that holds a guard goes on to
\* its end, and a caller that can again and again have the lock gets it
SpecLock ==
    /\ ConfigInit
    /\ [][lock_Next]_vars
    /\ \A t \in Threads :
          /\ WF_vars(lock_Next /\ return(t))
          /\ SF_vars(lock_Next /\ acquire(t))

\* TextLayout handles made, cloned and called through
SpecClone == ConfigInit /\ [][arc_Next]_vars

\* a Border constructed, read and set
SpecBorder == ConfigInit /\ [][bdr_Next]_vars

(***************************************************************************)
(* Pixel comparison: src/src/pixels.rs.  A Python value is an object of    *)
(* the class Pixel (a wrapped Dynamic), of one of the four variant classes *)
(* BitPixel, L, Rgb, Rgba (what get_pixel returns), or of another type.    *)
(***************************************************************************)
Channels == {0, 255}

DynamicPixels ==
    {BitPixel(on) : on \in BOOLEAN} \cup {L(v) : v \in Channels}
        \cup {Rgb(r, 0, b) : r, b \in Channels}
        \cup {Rgba(r, 0, 0, a) : r, a \in Channels}

PyObject(class, dyn) == [class |-> class, inner |-> dyn]

\* Pixel.from_* (pixels.rs:73-138), and the variant classes (pixels.rs:8-57)
\* as cast_pixel_to_pyobject (utils.rs:5-12) makes them
PixelObjects == {PyObject("Pixel", p) : p \in DynamicPixels}
VariantClass(p) ==
    CASE p.mode = "bitpixel" -> "BitPixel"
      [] p.mode = "L" -> "L"
      [] p.mode = "RGB" -> "Rgb"
      [] p.mode = "RGBA" -> "Rgba"
VariantObjects == {PyObject(VariantClass(p), p) : p \in DynamicPixels}

\* values that are no pixels: an int, a tuple, None
OtherObjects == {PyObject(c, NoPixel) : c \in {"int", "tuple", "NoneType"}}

CompareOps == {"Eq", "Ne", "Lt"}

\* other.extract::<Self>() succeeding whatever the class of `other`
extract_unchecked(self, other) == other.inner # NoPixel

\* other.extract::<Self>(py) (pixels.rs:142): Ok exactly for an object of the
\* class of self
extract(self, other) == other.class = self.class

\* the derived PartialEq (pixels.rs:8, 19, 28, 43, 61): the same variant and
\* the same value in every field
PartialEq(a, b) ==
    /\ a.inner.mode = b.inner.mode
    /\ \A i \in 1..Len(a.inner.c) : a.inner.c[i] = b.inner.c[i]

\* __richcmp__ (pixels.rs:140-161, 188-209, 223-244, 258-279, 293-314)
richcmp(self, other, op) ==
    CASE op = "Eq" -> IF extract(self, other) THEN PartialEq(self, other) ELSE FALSE
      [] op = "Ne" -> IF extract(self, other) THEN ~PartialEq(self, other) ELSE TRUE
      [] OTHER -> "NotImplemented"

\* Pixel.__richcmp__ (pixels.rs:140-161)
Pixel___richcmp__ ==
    /\ img_ret.op = None
    /\ img_args.self.class = "Pixel"
    /\ \E op \in CompareOps :
          img_ret' = Ret(op, "value", [b |-> richcmp(img_args.self, img_args.other, op)])
    /\ UNCHANGED <<img, img_args>>

\* BitPixel, L, Rgb and Rgba __richcmp__ (pixels.rs:188-314)
Variant___richcmp__ ==
    /\ img_ret.op = None
    /\ img_args.self.class # "Pixel"
    /\ \E op \in CompareOps :
          img_ret' = Ret(op, "value", [b |-> richcmp(img_args.self, img_args.other, op)])
    /\ UNCHANGED <<img, img_args>>

pixel_Init ==
    /\ img = NoImage
    /\ img_ret = Ret(None, None, None)
    /\ \E self \in PixelObjects \cup VariantObjects,
          other \in PixelObjects \cup VariantObjects \cup OtherObjects :
          img_args = [op |-> "__richcmp__", self |-> self, other |-> other]

pixel_Next ==
    \/ Pixel___richcmp__ /\ UNCHANGED <<seq_vars, lay_vars, frm_vars, arc_vars, bdr_vars>>
    \/ Variant___richcmp__ /\ UNCHANGED <<seq_vars, lay_vars, frm_vars, arc_vars, bdr_vars>>

PixelInit == pixel_Init /\ seq_Idle /\ lay_Idle /\ frm_Idle /\ arc_Idle /\ bdr_Idle

SpecPixel ==
    /\ PixelInit
    /\ [][pixel_Next]_vars

ImageInit == img_Init /\ img_args = NoArgs /\ seq_Idle /\ lay_Idle /\ frm_Idle /\ arc_Idle /\ bdr_Idle

SpecImage ==
    /\ ImageInit
    /\ [][img_Next]_vars

(***************************************************************************)
(* Claims about ImageSequence                                              *)
(***************************************************************************)
IsPrefix(s, t) == Len(s) <= Len(t) /\ \A i \in 1..Len(s) : s[i] = t[i]

\* C1: a sequence built from N frames yields, pass by pass, exactly those N
\* frames in list order and then the exhaustion signal; every later pass
\* yields no frame at all.
C1_SinglePass ==
    seq_built =>
        /\ IF stopped THEN yielded = <<>> ELSE IsPrefix(yielded, given)
        /\ \A k \in 1..Len(drains) :
             drains[k] = IF k = 1 THEN given ELSE <<>>
        /\ (seq_ret.op = "__next__" /\ seq_ret.kind = "Frame" /\ ~stopped)
              => seq_ret.val = given[Len(yielded)]

C1_Witness ==
    /\ Len(given) = MaxFrames
    /\ given[1] # given[2]
    /\ Len(drains) = 2

\* C2: once __next__ has returned the exhaustion signal, every later step
\* leaves the cursor exhausted and every later __next__ returns the signal
\* again, whatever __iter__, __len__, encode or save calls come between.
C2_ExhaustionAbsorbing ==
    [][stopped =>
          /\ stopped'
          /\ iter' = <<>>
          /\ (seq_ret'.op = "__next__" => seq_ret'.kind = StopIteration)
          /\ yielded' = <<>>]_vars

C2_Witness ==
    /\ stopped
    /\ Len(given) > 0
    /\ seq_ret.op = "__iter__"
    /\ Len(drains) = 1

\* C3: __len__ always reports the number of frames the sequence was built
\* with, and the stored frame list is the constructor's list at every cursor
\* position.
C3_LenIsStorage ==
    seq_built =>
        /\ inner = given
        /\ (seq_ret.op = "__len__" => seq_ret.val = Len(given))

C3_Witness ==
    /\ seq_ret.op = "__len__"
    /\ seq_ret.val = MaxFrames
    /\ stopped

(***************************************************************************)
(* Claims about TextLayout                                                 *)
(***************************************************************************)
Holding(guard) == {t \in Threads : th[t] = guard}

\* C4: at any time either nobody is inside a TextLayout method, or only callers
\* of reading methods are (any number of them), or exactly one caller of a
\* mutating method is and nobody else; the lock's own count agrees.
C4_ReadersXorWriter ==
    /\ Cardinality(Holding("write")) <= 1
    /\ (Holding("write") # {} => Holding("read") = {})
    /\ lock.writer = (Holding("write") # {})
    /\ lock.readers = Cardinality(Holding("read"))

C4_Witness ==
    /\ Cardinality(Holding("read")) = 2
    /\ lay.segments # <<>>

\* C5: a mutating method that ends abnormally with its write guard alive leaves
\* the lock poisoned, and from then on the lock stays poisoned and every call
\* of every method returns the lock-poisoned error, taking no guard and
\* leaving the layout as it is.
C5_PoisonedFailsAll ==
    [][/\ ((\E t \in Threads : th[t] = "write" /\ th'[t] = Idle)
              /\ lay_ret'.val = "panic" => poisoned')
       /\ (poisoned =>
              /\ poisoned'
              /\ lay' = lay /\ lock' = lock /\ th' = th /\ fresh' = fresh
              /\ lay_ret' \in {lay_ret} \cup
                              {Ret(op, "error", PoisionError) : op \in ReadOps \cup WriteOps})
      ]_vars

C5_Witness ==
    /\ poisoned
    /\ lay_ret = Ret("__repr__", "error", PoisionError)
    /\ lay.segments # <<>>

\* C6: a metric read leaves the layout as it was, and a metric read again
\* with no mutation since its previous read returns the value it returned then.
C6_MetricReadsRepeat ==
    [][/\ ((\E t \in Threads : th[t] = "read" /\ th'[t] = Idle) => lay' = lay)
       /\ (fresh.op # None /\ fresh'.op = fresh.op => fresh'.val = fresh.val)
      ]_vars

C6_Witness ==
    /\ fresh.op = "bounding_box"
    /\ fresh.again
    /\ Len(lay.segments) = MaxSegments
    /\ lay.x_anchor = "Center"

(***************************************************************************)
(* Claims about Image                                                      *)
(***************************************************************************)
\* C7: after any sequence of Image operations every pixel of the image has
\* the variant of the pixel at (0, 0), which is the one Image.mode reports.
\* set_pixel and from_pixels store the pixels they are given, of whatever
\* variant, so this does not hold of the code.
C7_OneVariant ==
    /\ \A k \in 1..Len(img.data) : img.data[k].mode = mode(img)
    /\ img_ret.op = "mode" => \A k \in 1..Len(img.data) : img.data[k].mode = img_ret.val

Unconfigured(e) ==
    \/ e.fill = NoPixel /\ e.border = NoBorder
    \/ e.size[1] = 0
    \/ e.size[2] = 0

\* C9: draw of a Rectangle or Ellipse with neither fill nor border, or with a
\* width or height (a radius) of zero, ends in a ConfigurationError and leaves
\* the pixels as they were.  The code has no such error: draw tests nothing
\* and the rectangle panics.
C9_DrawReportsConfigurationError ==
    [][(img_ret'.op = "draw" /\ Unconfigured(img_ret'.val.entity)) =>
           img_ret'.kind = "ConfigurationError" /\ img'.data = img.data]_vars

C13_FromBandsValidates ==
    [][img_ret'.op = "from_bands" =>
           LET bands == img_args'.bands
           IN  IF Len(bands) \notin {3, 4}
               THEN img_ret'.kind = "ValueError" /\ img' = NoImage
               ELSE IF \E i \in 1..Len(bands) : mode(bands[i]) # "L"
               THEN img_ret'.kind = "TypeError" /\ img' = NoImage
               ELSE /\ img_ret'.kind = "status"
                    /\ img'.width = bands[1].width /\ img'.height = bands[1].height
                    /\ \A k \in 1..Len(img'.data) :
                          /\ img'.data[k].mode = IF Len(bands) = 3 THEN "RGB" ELSE "RGBA"
                          /\ img'.data[k].c = [i \in 1..Len(bands) |-> bands[i].data[k].c[1]]]_vars

C13_Witness ==
    /\ img_ret.op = "from_bands"
    /\ img_ret.kind = "status"
    /\ img.data[1] = Rgba(0, 255, 0, 255)

\* C15: Image.new(width, height, fill) makes an image of width x height
\* pixels, each equal to fill, when both are above 0, and fails with a
\* reported error, making no image, when either is 0.  The code tests neither
\* and returns Self: nothing is reported.
C15_NewRejectsZero ==
    [][img_ret'.op = "new" =>
           IF img_args'.width > 0 /\ img_args'.height > 0
           THEN /\ img_ret'.kind = "status"
                /\ img'.width = img_args'.width /\ img'.height = img_args'.height
                /\ Len(img'.data) = img_args'.width * img_args'.height
                /\ \A k \in 1..Len(img'.data) : img'.data[k] = img_args'.fill
           ELSE img_ret'.kind \in ReportedErrors /\ img' = NoImage]_vars

\* C16: Image.from_pixels(width, pixels) stores the pixels row-major with
\* height len(pixels) / width when len(pixels) is a multiple of width, and
\* fails with a reported error, making no image, when it is not or width is 0.
\* The code tests neither and returns Self: nothing is reported.
C16_FromPixelsRejectsRagged ==
    [][img_ret'.op = "from_pixels" =>
           LET w == img_args'.width
               pixels == img_args'.pixels
           IN  IF w > 0 /\ Len(pixels) % w = 0
               THEN /\ img_ret'.kind = "status"
                    /\ img'.width = w /\ img'.height = Len(pixels) \div w
                    /\ \A x \in 0..(w - 1), y \in 0..(img'.height - 1) :
                          pixel(img', x, y) = pixels[y * w + x + 1]
               ELSE img_ret'.kind \in ReportedErrors /\ img' = NoImage]_vars

\* C17: get_pixel and set_pixel with x >= width or y >= height fail with a
\* reported error and leave the image as it was; inside the image set_pixel
\* changes the pixel at (x, y) and no other, and get_pixel(x, y) then returns
\* the pixel that was set.  Both methods return plain values and test
\* nothing: outside the image nothing is reported.
C17_PixelAccessChecked ==
    [][/\ img_ret'.op = "set_pixel" =>
              LET x == img_args'.x
                  y == img_args'.y
              IN  IF InBounds(img, x, y)
                  THEN /\ img_ret'.kind = "status"
                       /\ img'.width = img.width /\ img'.height = img.height
                       /\ \A i \in 0..(img.width - 1), j \in 0..(img.height - 1) :
                             pixel(img', i, j) = IF i = x /\ j = y THEN img_args'.pixel
                                                 ELSE pixel(img, i, j)
                       /\ get_pixel(img', x, y) = img_args'.pixel
                  ELSE img_ret'.kind \in ReportedErrors /\ img' = img
       /\ img_ret'.op = "get_pixel" =>
              /\ img' = img
              /\ IF InBounds(img, img_args'.x, img_args'.y)
                 THEN /\ img_ret'.kind = "value"
                      /\ img_ret'.val = pixel(img, img_args'.x, img_args'.y)
                 ELSE img_ret'.kind \in ReportedErrors]_vars

\* C11: mask_alpha fails with UnexpectedFormat and leaves the image as it was
\* when the mask's mode is not L, when the mask's size is not the image's, and
\* when the image's mode has no alpha; it succeeds only for an RGBA image with
\* an L mask of its size, whose luminance becomes the alpha.  The code tests
\* the mask's mode and nothing else.
C11_MaskAlphaValidates ==
    [][img_ret'.op = "mask_alpha" =>
           LET mask == img_args'.mask
           IN  IF /\ mode(mask) = "L"
                  /\ mask.width = img.width /\ mask.height = img.height
                  /\ mode(img) = "RGBA"
               THEN /\ img_ret'.kind = "status"
                    /\ \A k \in 1..Len(img.data) :
                          img.data[k].mode = "RGBA" =>
                              img'.data[k] = Rgba(img.data[k].c[1], img.data[k].c[2],
                                                  img.data[k].c[3], mask.data[k].c[1])
               ELSE img_ret'.kind = UnexpectedFormat /\ img' = img]_vars

\* C12: from_bands of the images bands() returns for an RGB or an RGBA image
\* is an image of the same size and the same pixels, and bands() leaves the
\* image as it was.  An image whose mode is RGB can hold pixels of other
\* variants (C7), which the round trip brings back as Rgb.
C12_BandsRoundTrip ==
    [][(img_ret'.op = "bands" /\ img_ret'.kind = "value") =>
           /\ img' = img
           /\ Len(img_ret'.val) = IF mode(img) = "RGB" THEN 3 ELSE 4
           /\ ensure_mode(img_ret'.val) = 0
           /\ Image_from_bands(img_ret'.val) = img]_vars

\* C14: an UnexpectedFormat raised by paste, mask_alpha or bands carries the
\* mode the operation required as expected and the mode of the image that
\* fell short as got.  bands() passes the two the other way round.
C14_ExpectedThenGot ==
    img_ret.kind = UnexpectedFormat =>
        CASE img_ret.op = "paste" ->
                 /\ img_ret.val.expected = "bitpixel"
                 /\ img_ret.val.got = mode(img_args.mask)
          [] img_ret.op = "mask_alpha" ->
                 /\ img_ret.val.expected = "L"
                 /\ img_ret.val.got = mode(img_args.mask)
          [] img_ret.op = "bands" ->
                 /\ img_ret.val.expected = "Rgb or Rgba"
                 /\ img_ret.val.got = mode(img)

\* C20: paste without a mask puts other's pixel (i, j) on the image's pixel
\* (x + i, y + j) wherever that is inside the image, by the image's overlay
\* mode; what of other falls outside is dropped without an error or a change
\* of size, and every other pixel stays as it was.
C20_PasteClips ==
    [][(img_ret'.op = "paste" /\ img_args'.mask = NoImage) =>
           LET x == img_args'.x
               y == img_args'.y
               other == img_args'.other
           IN  /\ img_ret'.kind = "status"
               /\ img'.width = img.width /\ img'.height = img.height
               /\ \A px \in 0..(img.width - 1), py \in 0..(img.height - 1) :
                     pixel(img', px, py) =
                         IF /\ px >= x /\ px - x < other.width
                            /\ py >= y /\ py - y < other.height
                         THEN overlay(pixel(img, px, py), pixel(other, px - x, py - y),
                                      default_overlay)
                         ELSE pixel(img, px, py)]_vars

C20_Witness ==
    /\ img_ret.op = "paste"
    /\ img_args.mask = NoImage
    /\ Len(img_args.other.data) = 4
    /\ img_args.x = 1 /\ img_args.y = 0
    /\ img.width = 2 /\ img.height = 1
    /\ img.data[2] = BitPixel(TRUE)
    /\ img.data[1] = Rgb(0, 0, 0)

\* C18: drawing a Rectangle with a fill and no border at (x, y) with size
\* (w, h) sets every pixel of the image with x <= px < x + w and
\* y <= py < y + h to the fill and leaves every other pixel as it was
C18_FillCoversBox ==
    [][(constructed /\ img_args'.op = "draw" /\ img_args'.border[1] = None
            /\ img_args'.fill # NoPixel)
        => /\ img_ret' = Ret("draw", "status", img_ret'.val)
           /\ img'.width = img.width /\ img'.height = img.height
           /\ Len(img'.data) = Len(img.data)
           /\ \A px \in 0..(img.width - 1), py \in 0..(img.height - 1) :
                 pixel(img', px, py) =
                    IF /\ img_args'.position[1] <= px
                       /\ px < img_args'.position[1] + img_args'.size[1]
                       /\ img_args'.position[2] <= py
                       /\ py < img_args'.position[2] + img_args'.size[2]
                    THEN img_args'.fill
                    ELSE pixel(img, px, py)]_vars

\* the 4x4 transparent image after Rectangle (1,1) size (2,2) with a red fill
C18_Witness ==
    /\ img_ret.op = "draw" /\ img_ret.kind = "status"
    /\ img_args.op = "draw" /\ img_args.border[1] = None
    /\ img_args.position = <<1, 1>> /\ img_args.size = <<2, 2>>
    /\ img.width = 4 /\ img.height = 4
    /\ pixel(img, 1, 1) = Rgba(255, 0, 0, 255)
    /\ pixel(img, 2, 2) = Rgba(255, 0, 0, 255)
    /\ pixel(img, 0, 0) = Rgba(0, 0, 0, 0)
    /\ pixel(img, 3, 3) = Rgba(0, 0, 0, 0)

\* the ring a caller's border names around a box: `outset` the t pixels
\* outside it, `inset` the t pixels inside it, `center` t/2 on either side
C19_Ring(args, px, py) ==
    LET t == args.border[2]
        grow == CASE args.border[1] = "outset" -> t
                  [] args.border[1] = "center" -> t \div 2
                  [] OTHER -> 0
        shrink == CASE args.border[1] = "inset" -> t
                    [] args.border[1] = "center" -> t \div 2
                    [] OTHER -> 0
        x0 == args.position[1]
        y0 == args.position[2]
        x1 == x0 + args.size[1]
        y1 == y0 + args.size[2]
    IN  /\ x0 - grow <= px /\ px < x1 + grow /\ y0 - grow <= py /\ py < y1 + grow
        /\ ~(x0 + shrink <= px /\ px < x1 - shrink /\ y0 + shrink <= py /\ py < y1 - shrink)

C19_Box(args, px, py) ==
    /\ args.position[1] <= px /\ px < args.position[1] + args.size[1]
    /\ args.position[2] <= py /\ py < args.position[2] + args.size[2]

C21_ResizeDims ==
    [][img_args'.op = "resize" =>
           /\ img_ret' = Ret("resize", "status", "ok")
           /\ img_args'.algorithm \in ResizeInputs
           /\ img'.width = img_args'.width /\ img'.height = img_args'.height
           /\ Len(img'.data) = img_args'.width * img_args'.height
           /\ mode(img') = mode(img)
           /\ img_args'.back =>
                 /\ img'.width = img_args.before[1]
                 /\ img'.height = img_args.before[2]]_vars

\* an image two wide resized to one wide and two high and back again, with
\* the Lanczos kernel
C21_Witness ==
    /\ img_ret.op = "resize" /\ img_args.op = "resize"
    /\ img_args.back /\ img_args.algorithm = "Lanczos3"
    /\ img_args.before = <<1, 2>>
    /\ img.width = 2 /\ img.height = 1

C23_DrawUnion ==
    [][img_args'.op = "draw_entity" =>
           IF img_args'.class \in {"Rectangle", "Ellipse", "TextSegment", "TextLayout"}
           THEN /\ img_ret'.kind = "status"
                /\ img_ret'.val.entity.shape = img_args'.class
           ELSE /\ img_ret'.kind = "TypeError"
                /\ img' = img]_vars

\* C24: a setter called on a Frame after it was passed to from_frames, or
\* after iteration returned it, changes the caller's object and nothing of
\* the sequence: the stored list stays the constructor's, and __next__
\* goes on yielding the frames with the delay and disposal they were given
C24_FrameEditsStayOut ==
    /\ [](seq_built =>
            /\ inner = given
            /\ ~stopped => IsPrefix(yielded, given)
            /\ (seq_ret.op = "__next__" /\ seq_ret.kind = "Frame" /\ ~stopped)
                  => seq_ret.val = given[Len(yielded)])
    /\ [][seq_ret'.op \in {"set_delay", "set_disposal"} =>
              /\ inner' = inner /\ iter' = iter /\ yielded' = yielded]_vars

\* the caller changed the first frame of its list, and the sequence then
\* yielded its first frame as it was given
C24_Witness ==
    /\ seq_ret.op = "__next__" /\ seq_ret.kind = "Frame"
    /\ Len(yielded) = 1 /\ ~stopped
    /\ handles.edits = 1
    /\ handles.frames[1] # given[1]
    /\ seq_ret.val = given[1]

\* the result of a call that was given a format name no codec is known by
C25_Unrecognized(ret) ==
    /\ ret.op \in {"from_bytes", "encode", "save"}
    /\ ret.val.format # None
    /\ ret.val.format \notin KnownExtensions

\* C25: from_bytes, encode and save of Image and of ImageSequence, given a
\* format name that is no recognized extension, return a ValueError to the
\* caller without the codec having been called, and a failed from_bytes
\* constructs nothing
C25_UnknownFormatFirst ==
    /\ C25_Unrecognized(img_ret) =>
          /\ img_ret.kind = "ValueError"
          /\ ~img_ret.val.codec_called
          /\ img_ret.op = "from_bytes" => img = NoImage
    /\ C25_Unrecognized(seq_ret) =>
          /\ seq_ret.kind = "ValueError"
          /\ ~seq_ret.val.codec_called
          /\ seq_ret.op = "from_bytes" => ~seq_built

\* an image decoded from bytes and a sequence decoded from bytes, each then
\* asked to save under a name that is no extension
C25_Witness ==
    /\ img # NoImage /\ seq_built
    /\ img_ret.op = "save" /\ img_ret.val.format = "nope" /\ img_ret.kind = "ValueError"
    /\ seq_ret.op = "save" /\ seq_ret.val.format = "nope" /\ seq_ret.kind = "ValueError"

\* C26: a centered() that returns leaves both anchors of the layout at
\* Center and its segments, position, width and wrap style as they were
C26_CenteredSetsAnchors ==
    [][((\E t \in Threads : th[t] = "write" /\ th'[t] = Idle)
            /\ lay_ret' = Ret("centered", "status", "ok"))
        => /\ lay'.x_anchor = "Center" /\ lay'.y_anchor = "Center"
           /\ lay'.segments = lay.segments
           /\ lay'.position = lay.position
           /\ lay'.width = lay.width
           /\ lay'.wrap = lay.wrap]_vars

\* a layout holding text, placed away from the origin, just centered
C26_Witness ==
    /\ lay_ret = Ret("centered", "status", "ok")
    /\ lay.x_anchor = "Center" /\ lay.y_anchor = "Center"
    /\ lay.segments # <<>>
    /\ lay.position # <<0, 0>>

ConfigOps ==
    {"set_position", "set_width", "set_wrap", "set_horizontal_anchor",
     "set_vertical_anchor", "centered"}

Blocked(t) ==
    \/ th[t] = "wants_read" /\ ~can_read(lock)
    \/ th[t] = "wants_write" /\ ~can_write(lock)

Seen(h) ==
    IF heap[arc[h]].poisoned THEN on_poison("__repr__")
    ELSE Ret("__repr__", "value", metric("__repr__", heap[arc[h]].lay))

\* C29: the clones of a TextLayout handle share one lock-protected state.
\* Any two handles cloned (directly or through other clones) from the same
\* constructed handle find the same thing - the same layout, or the same
\* poison; and a metric read made through a handle after a mutation made
\* through a handle of the same family returns the metric of the layout that
\* mutation left.
C29_ClonesShareState ==
    /\ \A h \in Handles, g \in Handles :
          (arc[h] # 0 /\ arc[g] # 0 /\ root[h] = root[g]) => Seen(h) = Seen(g)
    /\ (/\ used.write # None /\ used.read # None
        /\ root[used.read] = root[used.write])
          => lay_ret = IF heap[arc[used.write]].poisoned THEN on_poison(lay_ret.op)
                       ELSE Ret(lay_ret.op, "value",
                                metric(lay_ret.op, heap[arc[used.write]].lay))

\* a read through the clone h2 of h1 has returned the bounding box of the
\* position set through h1, which a handle constructed apart does not have
C29_Witness ==
    /\ root["h2"] = "h1" /\ arc["h3"] # 0 /\ root["h3"] = "h3"
    /\ used = [write |-> "h1", read |-> "h2"]
    /\ lay_ret = Ret("bounding_box", "value", <<6, 4, 6, 4>>)
    /\ Seen("h3") # Seen("h2")

\* C30: a Border's position, read as Python reads it, is always one of
\* inset, center, outset.  Border.new and the position setter given one of
\* those three strings succeed, and given any other string fail with a
\* ValueError; a failed call leaves the border's position, colour and
\* thickness as they were; and the position read right after a successful
\* set is the string that was set.
C30_BorderPosition ==
    /\ [](bdr # NoBorder
            => from_border_position(bdr.position) \in {"inset", "center", "outset"})
    /\ [][border_args'.op \in {"new", "set_position"}
            => IF border_args'.position \in {"inset", "center", "outset"}
               THEN border_ret'.kind = "status" /\ bdr' # NoBorder
               ELSE border_ret'.kind = "ValueError" /\ bdr' = bdr]_vars
    /\ [][(/\ border_args.op = "set_position" /\ border_ret.kind = "status"
           /\ border_args'.op = "get_position")
            => border_ret' = Ret("get_position", "value", border_args.position)]_vars

\* a set to a string of another spelling has failed on a border whose
\* position is outset, and the border has its colour, thickness and position
C30_Witness ==
    /\ border_args = [op |-> "set_position", position |-> "Inset"]
    /\ border_ret.kind = "ValueError"
    /\ bdr = [color |-> Rgb(255, 0, 0), thickness |-> 1, position |-> "Outset"]

====
